---------------------------- MODULE Spec2Model ----------------------------
(***************************************************************************)
(* Model of the entity service: the entity, membership and invitation      *)
(* helpers working over a shared relational store.  Every helper method is *)
(* a sequence of awaited store statements; one statement is one atomic     *)
(* step, and the steps of concurrent callers interleave.                   *)
(***************************************************************************)
EXTENDS Integers, Sequences, FiniteSets, TLC

(***************************************************************************)
(* Bounds of the model.                                                    *)
(***************************************************************************)
NumCallers == 2
MaxEntities == 2
MaxInvitations == 2
MaxTime == 8
ClockStep == 8

(***************************************************************************)
(* Program constants.                                                      *)
(***************************************************************************)
DEFAULT_SLUG_LENGTH == 8
MIN_SLUG_LENGTH == 8
MAX_SLUG_LENGTH == 12
MAX_SLUG_ATTEMPTS == 10
INVITATION_EXPIRY_DAYS == 7
SUFFIX_LIMIT == 1000

OWNER == "owner"
ADMIN == "admin"
MEMBER == "member"
PERSONAL == "personal"
ORGANIZATION == "organization"
PENDING == "pending"
ACCEPTED == "accepted"
DECLINED == "declined"
EXPIRED == "expired"

EntityRole == {OWNER, ADMIN, MEMBER}
InvitationStatus == {PENDING, ACCEPTED, DECLINED, EXPIRED}

(***************************************************************************)
(* The callers and the user identities they act for.  The users table is   *)
(* an external collaborator: a fixed set of rows.                          *)
(***************************************************************************)
Callers == 1..NumCallers
Users == {"u1", "u2"}
usersTable ==
    { [firebase_uid |-> "u1", uuid |-> "uuid-1", email |-> "e1"],
      [firebase_uid |-> "u2", uuid |-> "uuid-2", email |-> "e2"] }
Emails == {u.email : u \in usersTable}
Inviters == {"u1"}
Null == 0
NoTime == -1

VARIABLES
    entities,
    members,
    invitations,
    nextEntityId,
    nextMemberId,
    nextInvitationId,
    now,
    pc,
    call

vars == <<entities, members, invitations, nextEntityId, nextMemberId,
          nextInvitationId, now, pc, call>>

(***************************************************************************)
(* Slugs are sequences of one-character strings.                           *)
(***************************************************************************)
LowerCase ==
    <<"a", "b", "c", "d", "e", "f", "g", "h", "i", "j", "k", "l", "m",
      "n", "o", "p", "q", "r", "s", "t", "u", "v", "w", "x", "y", "z">>
UpperCase ==
    <<"A", "B", "C", "D", "E", "F", "G", "H", "I", "J", "K", "L", "M",
      "N", "O", "P", "Q", "R", "S", "T", "U", "V", "W", "X", "Y", "Z">>
Digits == {"0", "1", "2", "3", "4", "5", "6", "7", "8", "9"}
SLUG_CHARS == {LowerCase[i] : i \in 1..Len(LowerCase)} \cup Digits
GenChars == {"a", "b"}
NoSlug == <<>>

\* String.prototype.toLowerCase on one character.
toLowerCase(ch) ==
    IF \E i \in 1..Len(UpperCase) : UpperCase[i] = ch
    THEN LowerCase[CHOOSE i \in 1..Len(UpperCase) : UpperCase[i] = ch]
    ELSE ch

IsSlugChar(ch) == ch \in SLUG_CHARS

\* A normalizeSlug that keeps every character of [a-z0-9].
normalizeSlug_Uncut(input) ==
    SelectSeq([i \in 1..Len(input) |-> toLowerCase(input[i])], IsSlugChar)

\* normalizeSlug: lowercase, drop what is not [a-z0-9], keep 12 characters.
normalizeSlug(input) ==
    LET lowered == [i \in 1..Len(input) |-> toLowerCase(input[i])]
        kept == SelectSeq(lowered, IsSlugChar)
    IN  IF Len(kept) > MAX_SLUG_LENGTH
        THEN SubSeq(kept, 1, MAX_SLUG_LENGTH)
        ELSE kept

\* generateEntitySlug: a random slug of the clamped length.  The model draws
\* from the slugs made of one repeated character.
generateEntitySlug(length) ==
    LET lo == IF length > MIN_SLUG_LENGTH THEN length ELSE MIN_SLUG_LENGTH
        actualLength == IF lo < MAX_SLUG_LENGTH THEN lo ELSE MAX_SLUG_LENGTH
    IN  { [i \in 1..actualLength |-> ch] : ch \in GenChars }

\* A validateSlug that tests the characters and not the length.
validateSlug_CharsOnly(slug) ==
    \A i \in 1..Len(slug) : slug[i] \in SLUG_CHARS

\* validateSlug: /^[a-z0-9]{8,12}$/
validateSlug(slug) ==
    /\ Len(slug) >= MIN_SLUG_LENGTH
    /\ Len(slug) <= MAX_SLUG_LENGTH
    /\ \A i \in 1..Len(slug) : slug[i] \in SLUG_CHARS

(***************************************************************************)
(* Store primitives, with the constraints the table definitions declare.   *)
(***************************************************************************)
\* An entities table that declares no uniqueness over entity_slug.
SlugUnique_Undeclared(slug) == TRUE

\* entities.entity_slug is UNIQUE
SlugUnique(slug) == ~ \E e \in entities : e.entity_slug = slug

\* EntityHelper.isSlugAvailable
isSlugAvailable(slug) == ~ \E e \in entities : e.entity_slug = slug

\* entity_members.entity_id REFERENCES entities(id)
EntityExists(entityId) == \E e \in entities : e.id = entityId

\* A members table that declares no uniqueness over (entity_id, user_id).
MemberUnique_Undeclared(entityId, userId) == TRUE

\* entity_members UNIQUE(entity_id, user_id)
MemberUnique(entityId, userId) ==
    ~ \E m \in members : m.entity_id = entityId /\ m.user_id = userId

MemberRows(entityId, userId) ==
    {m \in members : m.entity_id = entityId /\ m.user_id = userId}

\* The row inserted by INSERT INTO entity_members (is_active defaults to true).
NewMember(entityId, userId, role) ==
    [id |-> nextMemberId, entity_id |-> entityId, user_id |-> userId,
     role |-> role, is_active |-> TRUE]

\* An INSERT into entity_members succeeds iff the constraints hold.
CanInsertMember(entityId, userId, role) ==
    /\ EntityExists(entityId)
    /\ role \in EntityRole
    /\ MemberUnique(entityId, userId)

\* EntityMemberHelper.getMember: the rows the select returns.
getMember(entityId, userId, includeInactive) ==
    {m \in MemberRows(entityId, userId) : includeInactive \/ m.is_active}

(***************************************************************************)
(* Callers.                                                                *)
(***************************************************************************)
NoCall ==
    [op |-> "none", userId |-> "", entityId |-> Null, role |-> "",
     token |-> Null, email |-> "", slug |-> NoSlug,
     attempts |-> 0, found |-> "", result |-> "none",
     retEntity |-> Null, retList |-> {}, retCount |-> 0, todo |-> {}]

\* A call that starts: its arguments, no locals, no outcome yet.
Start(op, userId, entityId, role, token, email, slug) ==
    [NoCall EXCEPT !.op = op, !.userId = userId, !.entityId = entityId,
                   !.role = role, !.token = token, !.email = email,
                   !.slug = slug, !.result = "running"]

Idle(c) == pc[c] = "idle"

\* A new call takes the first free caller.
CanStart(c) ==
    /\ Idle(c)
    /\ \A d \in Callers : d < c => ~ Idle(d)

\* The call of c ends with an outcome: "ok" or the message of the error thrown.
Return(c, cl, result) ==
    /\ pc' = [pc EXCEPT ![c] = "done"]
    /\ call' = [call EXCEPT ![c] = [cl EXCEPT !.result = result,
                                              !.attempts = 0]]

\* The caller takes the outcome and is free to make its next call.
Complete(c) ==
    /\ pc[c] = "done"
    /\ pc' = [pc EXCEPT ![c] = "idle"]
    /\ call' = [call EXCEPT ![c] = NoCall]
    /\ UNCHANGED <<entities, members, invitations, nextEntityId,
                   nextMemberId, nextInvitationId, now>>

Goto(c, cl, label) ==
    /\ pc' = [pc EXCEPT ![c] = label]
    /\ call' = [call EXCEPT ![c] = cl]

\* The error a rejected INSERT into entity_members raises.
InsertMemberError(entityId) ==
    IF EntityExists(entityId) THEN "unique_violation"
    ELSE "foreign_key_violation"

\* The slugs a createOrganization request supplies.
RequestSlugs ==
    { <<"A", "c", "m", "e", "-", "C", "o", "r", "p">>,
      <<"m", "y", "-", "o", "r", "g">> }

(***************************************************************************)
(* EntityHelper                                                            *)
(***************************************************************************)
\* The personal entities in which the user is an active owner.
PersonalEntitiesOf(userId) ==
    {e \in entities :
        /\ e.entity_type = PERSONAL
        /\ \E m \in members :
              /\ m.entity_id = e.id
              /\ m.user_id = userId
              /\ m.role = OWNER
              /\ m.is_active}

\* createPersonalEntity, first statement: insert the entity row.
CreatePersonalEntity_InsertEntity(c) ==
    /\ pc[c] = "cpe_entity"
    /\ nextEntityId <= MaxEntities
    /\ \E slug \in generateEntitySlug(DEFAULT_SLUG_LENGTH) :
         IF SlugUnique(slug)
         THEN /\ entities' = entities \cup
                    {[id |-> nextEntityId, entity_slug |-> slug,
                      entity_type |-> PERSONAL]}
              /\ nextEntityId' = nextEntityId + 1
              /\ Goto(c, [call[c] EXCEPT !.retEntity = nextEntityId],
                      "cpe_member")
         ELSE /\ Return(c, call[c], "unique_violation")
              /\ UNCHANGED <<entities, nextEntityId>>
    /\ UNCHANGED <<members, invitations, nextMemberId, nextInvitationId, now>>

\* createPersonalEntity, second statement: insert the owner membership.
CreatePersonalEntity_InsertMember(c) ==
    /\ pc[c] = "cpe_member"
    /\ LET entityId == call[c].retEntity
           userId == call[c].userId
       IN  IF CanInsertMember(entityId, userId, OWNER)
           THEN /\ members' = members \cup {NewMember(entityId, userId, OWNER)}
                /\ nextMemberId' = nextMemberId + 1
                /\ IF call[c].op = "getUserEntities"
                   THEN Return(c, [call[c] EXCEPT
                                     !.retEntity = Null,
                                     !.retList = {[entity |-> entityId,
                                                   userRole |-> OWNER]}],
                               "ok")
                   ELSE Return(c, call[c], "ok")
           ELSE /\ Return(c, [call[c] EXCEPT !.retEntity = Null],
                          InsertMemberError(entityId))
                /\ UNCHANGED <<members, nextMemberId>>
    /\ UNCHANGED <<entities, invitations, nextEntityId, nextInvitationId, now>>

\* getOrCreatePersonalEntity: the lookup, then createPersonalEntity.
GetOrCreatePersonalEntity(c) ==
    /\ CanStart(c)
    /\ \E userId \in Users :
         LET cl == Start("getOrCreatePersonalEntity", userId, Null, "", Null,
                         "", NoSlug)
             existing == PersonalEntitiesOf(userId)
         IN  IF existing # {}
             THEN \E e \in existing :
                    Return(c, [cl EXCEPT !.retEntity = e.id], "ok")
             ELSE Goto(c, cl, "cpe_entity")
    /\ UNCHANGED <<entities, members, invitations, nextEntityId,
                   nextMemberId, nextInvitationId, now>>

\* A getUserEntities whose query does not filter on is_active.
GetUserEntities_IncludeInactive(c) ==
    /\ CanStart(c)
    /\ \E userId \in Users :
         LET cl == Start("getUserEntities", userId, Null, "", Null, "",
                         NoSlug)
             results == {[entity |-> m.entity_id, userRole |-> m.role] :
                            m \in {x \in members :
                                     /\ x.user_id = userId
                                     /\ EntityExists(x.entity_id)}}
         IN  IF results = {}
             THEN Goto(c, cl, "cpe_entity")
             ELSE Return(c, [cl EXCEPT !.retList = results], "ok")
    /\ UNCHANGED <<entities, members, invitations, nextEntityId,
                   nextMemberId, nextInvitationId, now>>

\* getUserEntities: the active memberships joined with their entities; a
\* personal entity is created when there are none.
GetUserEntities(c) ==
    /\ CanStart(c)
    /\ \E userId \in Users :
         LET cl == Start("getUserEntities", userId, Null, "", Null, "",
                         NoSlug)
             results == {[entity |-> m.entity_id, userRole |-> m.role] :
                            m \in {x \in members :
                                     /\ x.user_id = userId
                                     /\ x.is_active
                                     /\ EntityExists(x.entity_id)}}
         IN  IF results = {}
             THEN Goto(c, cl, "cpe_entity")
             ELSE Return(c, [cl EXCEPT !.retList = results], "ok")
    /\ UNCHANGED <<entities, members, invitations, nextEntityId,
                   nextMemberId, nextInvitationId, now>>

\* createOrganizationEntity: the slug is the normalized request slug, checked
\* for format and availability, or a generated one.
CreateOrganizationEntity(c) ==
    /\ CanStart(c)
    /\ \E userId \in Users, entitySlug \in RequestSlugs \cup {NoSlug} :
         LET cl == Start("createOrganizationEntity", userId, Null, "", Null,
                         "", entitySlug)
             slug == normalizeSlug(entitySlug)
         IN  IF entitySlug # NoSlug
             THEN IF ~ validateSlug(slug)
                  THEN Return(c, cl, "Invalid entity slug format")
                  ELSE IF ~ isSlugAvailable(slug)
                       THEN Return(c, cl, "Entity slug is already taken")
                       ELSE Goto(c, [cl EXCEPT !.slug = slug], "coe_entity")
             ELSE Goto(c, cl, "coe_generate")
    /\ UNCHANGED <<entities, members, invitations, nextEntityId,
                   nextMemberId, nextInvitationId, now>>

\* EntityHelper.generateUniqueSlug: one attempt of the retry loop.
GenerateUniqueSlug_Attempt(c) ==
    /\ pc[c] = "coe_generate"
    /\ \E slug \in generateEntitySlug(DEFAULT_SLUG_LENGTH) :
         IF isSlugAvailable(slug)
         THEN Goto(c, [call[c] EXCEPT !.slug = slug, !.attempts = 0],
                   "coe_entity")
         ELSE IF call[c].attempts + 1 < MAX_SLUG_ATTEMPTS
              THEN Goto(c, [call[c] EXCEPT !.attempts = @ + 1],
                        "coe_generate")
              ELSE Return(c, call[c], "Failed to generate unique slug")
    /\ UNCHANGED <<entities, members, invitations, nextEntityId,
                   nextMemberId, nextInvitationId, now>>

\* createOrganizationEntity: insert the entity row.
CreateOrganizationEntity_InsertEntity(c) ==
    /\ pc[c] = "coe_entity"
    /\ nextEntityId <= MaxEntities
    /\ IF SlugUnique(call[c].slug)
       THEN /\ entities' = entities \cup
                  {[id |-> nextEntityId, entity_slug |-> call[c].slug,
                    entity_type |-> ORGANIZATION]}
            /\ nextEntityId' = nextEntityId + 1
            /\ Goto(c, [call[c] EXCEPT !.retEntity = nextEntityId],
                    "coe_member")
       ELSE /\ Return(c, call[c], "unique_violation")
            /\ UNCHANGED <<entities, nextEntityId>>
    /\ UNCHANGED <<members, invitations, nextMemberId, nextInvitationId, now>>

\* createOrganizationEntity: insert the creator's owner membership.
CreateOrganizationEntity_InsertMember(c) ==
    /\ pc[c] = "coe_member"
    /\ LET entityId == call[c].retEntity
           userId == call[c].userId
       IN  IF CanInsertMember(entityId, userId, OWNER)
           THEN /\ members' = members \cup {NewMember(entityId, userId, OWNER)}
                /\ nextMemberId' = nextMemberId + 1
                /\ Return(c, call[c], "ok")
           ELSE /\ Return(c, [call[c] EXCEPT !.retEntity = Null],
                          InsertMemberError(entityId))
                /\ UNCHANGED <<members, nextMemberId>>
    /\ UNCHANGED <<entities, invitations, nextEntityId, nextInvitationId, now>>

(***************************************************************************)
(* EntityMemberHelper                                                      *)
(***************************************************************************)
\* Callers name the entities that exist: ids are handed out by the store.
EntityIds == {e.id : e \in entities}

\* An entity lookup that never reports a personal entity.
IsPersonal_Never(entityId) == FALSE

IsPersonal(entityId) ==
    \E e \in entities : e.id = entityId /\ e.entity_type = PERSONAL

\* addMember, first statement: getMember(entityId, firebaseUid, true).
AddMember(c) ==
    /\ CanStart(c)
    /\ \E entityId \in EntityIds, firebaseUid \in Users, role \in EntityRole :
         LET cl == Start("addMember", firebaseUid, entityId, role, Null, "",
                         NoSlug)
             existing == getMember(entityId, firebaseUid, TRUE)
         IN  IF \E m \in existing : ~ m.is_active
             THEN Goto(c, [cl EXCEPT !.found = "inactive"], "am_write")
             ELSE Goto(c, [cl EXCEPT !.found = "other"], "am_write")
    /\ UNCHANGED <<entities, members, invitations, nextEntityId,
                   nextMemberId, nextInvitationId, now>>

\* A reactivation that sets is_active only and leaves the stored role.
Reactivated_KeepRole(entityId, userId, role) ==
    {[m EXCEPT !.is_active = TRUE] : m \in MemberRows(entityId, userId)}

\* The rows of the pair after UPDATE ... SET role, is_active = true.
Reactivated(entityId, userId, role) ==
    {[m EXCEPT !.role = role, !.is_active = TRUE] :
        m \in MemberRows(entityId, userId)}

\* addMember, second statement: reactivate the inactive row, or insert.
AddMember_Write(c) ==
    /\ pc[c] = "am_write"
    /\ LET entityId == call[c].entityId
           userId == call[c].userId
           role == call[c].role
       IN  IF call[c].found = "inactive"
           THEN /\ members' = (members \ MemberRows(entityId, userId))
                                 \cup Reactivated(entityId, userId, role)
                /\ UNCHANGED nextMemberId
                /\ IF MemberRows(entityId, userId) = {}
                   THEN Return(c, call[c], "TypeError")
                   ELSE Return(c, [call[c] EXCEPT !.found = "reactivated"],
                               "ok")
           ELSE IF CanInsertMember(entityId, userId, role)
                THEN /\ members' = members \cup
                           {NewMember(entityId, userId, role)}
                     /\ nextMemberId' = nextMemberId + 1
                     /\ Return(c, call[c], "ok")
                ELSE /\ Return(c, call[c], InsertMemberError(entityId))
                     /\ UNCHANGED <<members, nextMemberId>>
    /\ UNCHANGED <<entities, invitations, nextEntityId, nextInvitationId, now>>

\* updateMemberRole: the owner-role check and the entity lookup.
UpdateMemberRole(c) ==
    /\ CanStart(c)
    /\ \E entityId \in EntityIds, userId \in Users, role \in EntityRole :
         LET cl == Start("updateMemberRole", userId, entityId, role, Null,
                         "", NoSlug)
         IN  IF role = OWNER
             THEN Return(c, cl,
                    "Cannot assign owner role. Use ownership transfer instead.")
             ELSE IF IsPersonal(entityId)
                  THEN Return(c, cl,
                         "Cannot change roles in personal entities")
                  ELSE Goto(c, cl, "umr_member")
    /\ UNCHANGED <<entities, members, invitations, nextEntityId,
                   nextMemberId, nextInvitationId, now>>

\* updateMemberRole: getMember(entityId, userId) and the owner check.
UpdateMemberRole_GetMember(c) ==
    /\ pc[c] = "umr_member"
    /\ LET currentMember == getMember(call[c].entityId, call[c].userId, FALSE)
       IN  IF \E m \in currentMember : m.role = OWNER
           THEN Return(c, call[c], "Cannot change the owner's role")
           ELSE Goto(c, call[c], "umr_update")
    /\ UNCHANGED <<entities, members, invitations, nextEntityId,
                   nextMemberId, nextInvitationId, now>>

\* An update of updateMemberRole without the is_active condition.
UpdateMemberRole_Update_AnyRow(c) ==
    /\ pc[c] = "umr_update"
    /\ LET rows == MemberRows(call[c].entityId, call[c].userId)
       IN  /\ members' = (members \ rows)
                            \cup {[m EXCEPT !.role = call[c].role] : m \in rows}
           /\ IF rows = {}
              THEN Return(c, call[c], "Member not found or inactive")
              ELSE Return(c, call[c], "ok")
    /\ UNCHANGED <<entities, invitations, nextEntityId, nextMemberId,
                   nextInvitationId, now>>

\* updateMemberRole: UPDATE ... SET role WHERE entity, user, is_active.
UpdateMemberRole_Update(c) ==
    /\ pc[c] = "umr_update"
    /\ LET rows == getMember(call[c].entityId, call[c].userId, FALSE)
       IN  /\ members' = (members \ rows)
                            \cup {[m EXCEPT !.role = call[c].role] : m \in rows}
           /\ IF rows = {}
              THEN Return(c, call[c], "Member not found or inactive")
              ELSE Return(c, call[c], "ok")
    /\ UNCHANGED <<entities, invitations, nextEntityId, nextMemberId,
                   nextInvitationId, now>>

\* removeMember: the entity lookup.
RemoveMember(c) ==
    /\ CanStart(c)
    /\ \E entityId \in EntityIds, userId \in Users :
         LET cl == Start("removeMember", userId, entityId, "", Null, "",
                         NoSlug)
         IN  IF IsPersonal(entityId)
             THEN Return(c, cl,
                    "Cannot remove members from personal entities")
             ELSE Goto(c, cl, "rm_member")
    /\ UNCHANGED <<entities, members, invitations, nextEntityId,
                   nextMemberId, nextInvitationId, now>>

\* A member lookup of removeMember that lets the owner through.
RemoveMember_GetMember_AnyRole(c) ==
    /\ pc[c] = "rm_member"
    /\ IF getMember(call[c].entityId, call[c].userId, FALSE) = {}
       THEN Return(c, call[c], "Member not found")
       ELSE Goto(c, call[c], "rm_update")
    /\ UNCHANGED <<entities, members, invitations, nextEntityId,
                   nextMemberId, nextInvitationId, now>>

\* removeMember: getMember(entityId, userId) and the owner check.
RemoveMember_GetMember(c) ==
    /\ pc[c] = "rm_member"
    /\ LET member == getMember(call[c].entityId, call[c].userId, FALSE)
       IN  IF member = {}
           THEN Return(c, call[c], "Member not found")
           ELSE IF \E m \in member : m.role = OWNER
                THEN Return(c, call[c], "Cannot remove the entity owner")
                ELSE Goto(c, call[c], "rm_update")
    /\ UNCHANGED <<entities, members, invitations, nextEntityId,
                   nextMemberId, nextInvitationId, now>>

\* removeMember: UPDATE ... SET is_active = false WHERE entity, user.
RemoveMember_Update(c) ==
    /\ pc[c] = "rm_update"
    /\ LET rows == MemberRows(call[c].entityId, call[c].userId)
       IN  members' = (members \ rows)
                         \cup {[m EXCEPT !.is_active = FALSE] : m \in rows}
    /\ Return(c, call[c], "ok")
    /\ UNCHANGED <<entities, invitations, nextEntityId, nextMemberId,
                   nextInvitationId, now>>

(***************************************************************************)
(* EntityHelper: updateEntity and deleteEntity                             *)
(***************************************************************************)
\* The slugs a caller asks for in updateEntity: the request slugs and one
\* slug that the generator also produces.
UpdateSlugs ==
    RequestSlugs \cup {[i \in 1..DEFAULT_SLUG_LENGTH |-> "a"]}

\* getEntity: the rows the select returns.
getEntity(entityId) == {e \in entities : e.id = entityId}

\* UPDATE entities SET entity_slug: accepted iff no other row holds the slug.
CanUpdateSlug(entityId, slug) ==
    \/ SlugUnique(slug)
    \/ \E e \in getEntity(entityId) : e.entity_slug = slug

\* updateEntity, the UPDATE statement: sets the slug when updates.entity_slug
\* was set (the call is marked "changing"); mapRecordToEntity fails on the
\* missing row when no row was updated.
UpdateEntity_Write(c, cl) ==
    IF getEntity(cl.entityId) = {}
    THEN /\ Return(c, cl, "TypeError")
         /\ UNCHANGED entities
    ELSE IF cl.found # "changing"
         THEN /\ Return(c, [cl EXCEPT !.retEntity = cl.entityId], "ok")
              /\ UNCHANGED entities
         ELSE IF CanUpdateSlug(cl.entityId, cl.slug)
              THEN /\ entities' = {IF e.id = cl.entityId
                                   THEN [e EXCEPT !.entity_slug = cl.slug]
                                   ELSE e : e \in entities}
                   /\ Return(c, [cl EXCEPT !.retEntity = cl.entityId], "ok")
              ELSE /\ Return(c, cl, "unique_violation")
                   /\ UNCHANGED entities

\* updateEntity: with a slug in the request, the format check and getEntity;
\* without one, the UPDATE at once.
UpdateEntity(c) ==
    /\ CanStart(c)
    /\ \E entityId \in 1..MaxEntities, entitySlug \in UpdateSlugs \cup {NoSlug} :
         LET cl == Start("updateEntity", "", entityId, "", Null, "", NoSlug)
             slug == normalizeSlug(entitySlug)
         IN  IF entitySlug = NoSlug
             THEN UpdateEntity_Write(c, cl)
             ELSE /\ UNCHANGED entities
                  /\ IF ~ validateSlug(slug)
                     THEN Return(c, [cl EXCEPT !.slug = entitySlug],
                                 "Invalid entity slug format")
                     ELSE IF \E existing \in getEntity(entityId) :
                                existing.entity_slug # slug
                          THEN Goto(c, [cl EXCEPT !.slug = slug],
                                    "ue_available")
                          ELSE Goto(c, [cl EXCEPT !.slug = slug],
                                    "ue_update")
    /\ UNCHANGED <<members, invitations, nextEntityId, nextMemberId,
                   nextInvitationId, now>>

\* An updateEntity that skips the availability check.
UpdateEntity_CheckAvailable_Skipped(c) ==
    /\ pc[c] = "ue_available"
    /\ Goto(c, [call[c] EXCEPT !.found = "changing"], "ue_update")
    /\ UNCHANGED <<entities, members, invitations, nextEntityId,
                   nextMemberId, nextInvitationId, now>>

\* updateEntity: isSlugAvailable for the new slug.
UpdateEntity_CheckAvailable(c) ==
    /\ pc[c] = "ue_available"
    /\ IF ~ isSlugAvailable(call[c].slug)
       THEN Return(c, call[c], "Entity slug is already taken")
       ELSE Goto(c, [call[c] EXCEPT !.found = "changing"], "ue_update")
    /\ UNCHANGED <<entities, members, invitations, nextEntityId,
                   nextMemberId, nextInvitationId, now>>

\* updateEntity: the UPDATE statement after the slug checks.
UpdateEntity_Update(c) ==
    /\ pc[c] = "ue_update"
    /\ UpdateEntity_Write(c, call[c])
    /\ UNCHANGED <<members, invitations, nextEntityId, nextMemberId,
                   nextInvitationId, now>>

\* A deleteEntity that does not look at the entity type.
DeleteEntity_AnyType(c) ==
    /\ CanStart(c)
    /\ \E entityId \in 1..MaxEntities :
         LET cl == Start("deleteEntity", "", entityId, "", Null, "", NoSlug)
         IN  IF getEntity(entityId) = {}
             THEN Return(c, cl, "Entity not found")
             ELSE Goto(c, cl, "de_delete")
    /\ UNCHANGED <<entities, members, invitations, nextEntityId,
                   nextMemberId, nextInvitationId, now>>

\* deleteEntity: getEntity and the two refusals.
DeleteEntity(c) ==
    /\ CanStart(c)
    /\ \E entityId \in 1..MaxEntities :
         LET cl == Start("deleteEntity", "", entityId, "", Null, "", NoSlug)
         IN  IF getEntity(entityId) = {}
             THEN Return(c, cl, "Entity not found")
             ELSE IF \E e \in getEntity(entityId) : e.entity_type = PERSONAL
                  THEN Return(c, cl, "Personal entities cannot be deleted")
                  ELSE Goto(c, cl, "de_delete")
    /\ UNCHANGED <<entities, members, invitations, nextEntityId,
                   nextMemberId, nextInvitationId, now>>

\* deleteEntity: DELETE FROM entities WHERE id = entityId; the rows of
\* entity_members and entity_invitations go with it (ON DELETE CASCADE).
DeleteEntity_Delete(c) ==
    /\ pc[c] = "de_delete"
    /\ entities' = {e \in entities : e.id # call[c].entityId}
    /\ IF getEntity(call[c].entityId) = {}
       THEN UNCHANGED <<members, invitations>>
       ELSE /\ members' = {m \in members : m.entity_id # call[c].entityId}
            /\ invitations' =
                  {i \in invitations : i.entity_id # call[c].entityId}
    /\ Return(c, call[c], "ok")
    /\ UNCHANGED <<nextEntityId, nextMemberId, nextInvitationId, now>>

(***************************************************************************)
(* InvitationHelper                                                        *)
(***************************************************************************)
\* The tokens handed out so far: a token is unguessable, so callers present
\* only tokens that were issued (of rows that may since have been deleted).
IssuedTokens == 1..(nextInvitationId - 1)

\* entity_invitations.role CHECK (role IN ('admin', 'member'))
InvitationRoles == {ADMIN, MEMBER}

\* getInvitationByToken: the rows the select returns.
getInvitationByToken(token) == {i \in invitations : i.token = token}

\* mapRecordToInvitation: the invitation returned for a row; a missing
\* accepted_at becomes null.
mapRecordToInvitation(record) ==
    [id |-> record.id, entityId |-> record.entity_id,
     email |-> record.email, role |-> record.role, status |-> record.status,
     invitedByUserId |-> record.invited_by_user_id, token |-> record.token,
     expiresAt |-> record.expires_at,
     acceptedAt |-> IF record.accepted_at = NoTime THEN Null
                    ELSE record.accepted_at]

\* A calculateInvitationExpiry that adds one day.
calculateInvitationExpiry_OneDay == now + 1

\* calculateInvitationExpiry: seven days from now.
calculateInvitationExpiry == now + INVITATION_EXPIRY_DAYS

\* An expiry test that lets every invitation through.
IsExpired_Never(i) == FALSE

\* new Date(invitation.expiresAt) < new Date()
IsExpired(i) == i.expires_at < now

\* UPDATE entity_invitations SET status [, accepted_at] WHERE id = ...
SetStatus(invitationId, status, acceptedAt) ==
    {IF i.id = invitationId
     THEN [i EXCEPT !.status = status,
                    !.accepted_at = IF acceptedAt = NoTime THEN @
                                    ELSE acceptedAt]
     ELSE i : i \in invitations}

\* createInvitation: the membership check, members joined with users on
\* user_id = users.uuid and filtered by the invited email.
CreateInvitation(c) ==
    /\ CanStart(c)
    /\ \E entityId \in EntityIds, invitedBy \in Inviters,
          email \in Emails, role \in EntityRole :
         LET cl == Start("createInvitation", invitedBy, entityId, role, Null,
                         email, NoSlug)
             existingMember ==
                 {m \in members :
                     /\ m.entity_id = entityId
                     /\ \E u \in usersTable :
                           m.user_id = u.uuid /\ u.email = email}
         IN  IF existingMember # {}
             THEN Return(c, cl, "User is already a member of this entity")
             ELSE Goto(c, cl, "ci_invite")
    /\ UNCHANGED <<entities, members, invitations, nextEntityId,
                   nextMemberId, nextInvitationId, now>>

\* A duplicate check of createInvitation that ignores the status.
CreateInvitation_CheckPending_AnyStatus(c) ==
    /\ pc[c] = "ci_invite"
    /\ IF \E i \in invitations :
             i.entity_id = call[c].entityId /\ i.email = call[c].email
       THEN Return(c, call[c],
                   "An invitation is already pending for this email")
       ELSE Goto(c, call[c], "ci_insert")
    /\ UNCHANGED <<entities, members, invitations, nextEntityId,
                   nextMemberId, nextInvitationId, now>>

\* createInvitation: the pending-invitation check.
CreateInvitation_CheckPending(c) ==
    /\ pc[c] = "ci_invite"
    /\ LET existingInvite ==
               {i \in invitations :
                   /\ i.entity_id = call[c].entityId
                   /\ i.email = call[c].email
                   /\ i.status = PENDING}
       IN  IF existingInvite # {}
           THEN Return(c, call[c],
                       "An invitation is already pending for this email")
           ELSE Goto(c, call[c], "ci_insert")
    /\ UNCHANGED <<entities, members, invitations, nextEntityId,
                   nextMemberId, nextInvitationId, now>>

\* createInvitation: the insert, with a fresh token and the expiry.
CreateInvitation_Insert(c) ==
    /\ pc[c] = "ci_insert"
    /\ nextInvitationId <= MaxInvitations
    /\ IF ~ EntityExists(call[c].entityId)
       THEN /\ Return(c, call[c], "foreign_key_violation")
            /\ UNCHANGED <<invitations, nextInvitationId>>
       ELSE IF call[c].role \notin InvitationRoles
            THEN /\ Return(c, call[c], "check_violation")
                 /\ UNCHANGED <<invitations, nextInvitationId>>
            ELSE /\ invitations' = invitations \cup
                       {[id |-> nextInvitationId,
                         entity_id |-> call[c].entityId,
                         email |-> call[c].email,
                         role |-> call[c].role,
                         status |-> PENDING,
                         invited_by_user_id |-> call[c].userId,
                         token |-> nextInvitationId,
                         expires_at |-> calculateInvitationExpiry,
                         accepted_at |-> NoTime]}
                 /\ nextInvitationId' = nextInvitationId + 1
                 /\ Return(c, [call[c] EXCEPT !.token = nextInvitationId],
                           "ok")
    /\ UNCHANGED <<entities, members, nextEntityId, nextMemberId, now>>

\* The end of acceptInvitation.  Called on its own it returns or throws to
\* the caller; called by processNewUserInvitations its error is caught and
\* logged, and the loop goes on with the invitations left, or returns.
AcceptReturn(c, cl, result) ==
    IF cl.op = "processNewUserInvitations"
    THEN LET logged == IF result = "ok" THEN cl
                       ELSE [cl EXCEPT !.retCount = @ + 1]
         IN  IF cl.todo = {}
             THEN Return(c, logged, "ok")
             ELSE Goto(c, logged, "pnu_loop")
    ELSE Return(c, cl, result)

\* acceptInvitation: the lookup by token and the status and expiry checks,
\* for the token and user of the call cl.
AcceptInvitation_Lookup(c, cl) ==
    LET found == getInvitationByToken(cl.token)
    IN  IF found = {}
        THEN AcceptReturn(c, cl, "Invitation not found")
        ELSE \E invitation \in found :
               LET read == [cl EXCEPT !.entityId = invitation.entity_id,
                                      !.role = invitation.role]
               IN  IF invitation.status # PENDING
                   THEN AcceptReturn(c, cl, "Invitation is no longer pending")
                   ELSE IF IsExpired(invitation)
                        THEN Goto(c, read, "acc_expire")
                        ELSE Goto(c, read, "acc_member")

\* acceptInvitation, called with a token and a user.
AcceptInvitation(c) ==
    /\ CanStart(c)
    /\ \E token \in IssuedTokens, userId \in Users :
         AcceptInvitation_Lookup(c, Start("acceptInvitation", userId, Null,
                                         "", token, "", NoSlug))
    /\ UNCHANGED <<entities, members, invitations, nextEntityId,
                   nextMemberId, nextInvitationId, now>>

\* acceptInvitation: mark the expired invitation and fail.
AcceptInvitation_MarkExpired(c) ==
    /\ pc[c] = "acc_expire"
    /\ invitations' = SetStatus(call[c].token, EXPIRED, NoTime)
    /\ AcceptReturn(c, call[c], "Invitation has expired")
    /\ UNCHANGED <<entities, members, nextEntityId, nextMemberId,
                   nextInvitationId, now>>

\* acceptInvitation: insert the membership.
AcceptInvitation_InsertMember(c) ==
    /\ pc[c] = "acc_member"
    /\ LET entityId == call[c].entityId
           userId == call[c].userId
           role == call[c].role
       IN  IF CanInsertMember(entityId, userId, role)
           THEN /\ members' = members \cup {NewMember(entityId, userId, role)}
                /\ nextMemberId' = nextMemberId + 1
                /\ Goto(c, call[c], "acc_status")
           ELSE /\ AcceptReturn(c, call[c], InsertMemberError(entityId))
                /\ UNCHANGED <<members, nextMemberId>>
    /\ UNCHANGED <<entities, invitations, nextEntityId, nextInvitationId,
                   now>>

\* acceptInvitation: mark the invitation accepted.
AcceptInvitation_MarkAccepted(c) ==
    /\ pc[c] = "acc_status"
    /\ invitations' = SetStatus(call[c].token, ACCEPTED, now)
    /\ AcceptReturn(c, call[c], "ok")
    /\ UNCHANGED <<entities, members, nextEntityId, nextMemberId,
                   nextInvitationId, now>>

\* getUserPendingInvitations: the tokens of the pending invitations of the
\* email, joined with their entities.
getUserPendingInvitations(email) ==
    {i.token : i \in {j \in invitations :
                         /\ j.email = email
                         /\ j.status = PENDING
                         /\ EntityExists(j.entity_id)}}

\* processNewUserInvitations: fetch the pending invitations of the email.
ProcessNewUserInvitations(c) ==
    /\ CanStart(c)
    /\ \E userId \in Users, email \in Emails :
         LET pendingInvitations == getUserPendingInvitations(email)
             cl == [Start("processNewUserInvitations", userId, Null, "",
                          Null, email, NoSlug)
                      EXCEPT !.retList = pendingInvitations,
                             !.todo = pendingInvitations]
         IN  IF pendingInvitations = {}
             THEN Return(c, cl, "ok")
             ELSE Goto(c, cl, "pnu_loop")
    /\ UNCHANGED <<entities, members, invitations, nextEntityId,
                   nextMemberId, nextInvitationId, now>>

\* processNewUserInvitations: the next invitation of the loop, and the
\* lookup of its acceptInvitation.
ProcessNewUserInvitations_Attempt(c) ==
    /\ pc[c] = "pnu_loop"
    /\ \E token \in call[c].todo :
         AcceptInvitation_Lookup(c, [call[c] EXCEPT !.token = token,
                                                   !.todo = @ \ {token}])
    /\ UNCHANGED <<entities, members, invitations, nextEntityId,
                   nextMemberId, nextInvitationId, now>>

\* A lookup of declineInvitation that does not look at the status.
DeclineInvitation_AnyStatus(c) ==
    /\ CanStart(c)
    /\ \E token \in IssuedTokens :
         LET cl == Start("declineInvitation", "", Null, "", token, "", NoSlug)
         IN  IF getInvitationByToken(token) = {}
             THEN Return(c, cl, "Invitation not found")
             ELSE Goto(c, cl, "dec_status")
    /\ UNCHANGED <<entities, members, invitations, nextEntityId,
                   nextMemberId, nextInvitationId, now>>

\* declineInvitation: the lookup by token and the status check.
DeclineInvitation(c) ==
    /\ CanStart(c)
    /\ \E token \in IssuedTokens :
         LET cl == Start("declineInvitation", "", Null, "", token, "", NoSlug)
             found == getInvitationByToken(token)
         IN  IF found = {}
             THEN Return(c, cl, "Invitation not found")
             ELSE IF \E i \in found : i.status # PENDING
                  THEN Return(c, cl, "Invitation is no longer pending")
                  ELSE Goto(c, cl, "dec_status")
    /\ UNCHANGED <<entities, members, invitations, nextEntityId,
                   nextMemberId, nextInvitationId, now>>

\* declineInvitation: mark the invitation declined.
DeclineInvitation_MarkDeclined(c) ==
    /\ pc[c] = "dec_status"
    /\ invitations' = SetStatus(call[c].token, DECLINED, NoTime)
    /\ Return(c, call[c], "ok")
    /\ UNCHANGED <<entities, members, nextEntityId, nextMemberId,
                   nextInvitationId, now>>

\* A cancelInvitation that deletes pending invitations only.
CancelInvitation_PendingOnly(c) ==
    /\ CanStart(c)
    /\ \E invitationId \in IssuedTokens :
         /\ invitations' = {i \in invitations :
                               i.id # invitationId \/ i.status # PENDING}
         /\ Return(c, Start("cancelInvitation", "", Null, "", invitationId,
                            "", NoSlug), "ok")
    /\ UNCHANGED <<entities, members, nextEntityId, nextMemberId,
                   nextInvitationId, now>>

\* cancelInvitation: delete the row.
CancelInvitation(c) ==
    /\ CanStart(c)
    /\ \E invitationId \in IssuedTokens :
         /\ invitations' = {i \in invitations : i.id # invitationId}
         /\ Return(c, Start("cancelInvitation", "", Null, "", invitationId,
                            "", NoSlug), "ok")
    /\ UNCHANGED <<entities, members, nextEntityId, nextMemberId,
                   nextInvitationId, now>>

\* Every invitation whose expiry date has passed, whatever its status.
StaleInvitations_AnyStatus ==
    {i \in invitations : i.expires_at < now}

\* The rows expireOldInvitations updates: pending and past their expiry.
StaleInvitations ==
    {i \in invitations : i.status = PENDING /\ i.expires_at < now}

\* expireOldInvitations: one UPDATE; returns the number of rows it changed.
ExpireOldInvitations(c) ==
    /\ CanStart(c)
    /\ invitations' = (invitations \ StaleInvitations)
                         \cup {[i EXCEPT !.status = EXPIRED] :
                                  i \in StaleInvitations}
    /\ Return(c, [Start("expireOldInvitations", "", Null, "", Null, "",
                        NoSlug)
                    EXCEPT !.retCount = Cardinality(StaleInvitations)], "ok")
    /\ UNCHANGED <<entities, members, nextEntityId, nextMemberId,
                   nextInvitationId, now>>

\* Time passes.
Tick ==
    /\ now + ClockStep <= MaxTime
    /\ now' = now + ClockStep
    /\ UNCHANGED <<entities, members, invitations, nextEntityId,
                   nextMemberId, nextInvitationId, pc, call>>

(***************************************************************************)
(* PermissionHelper                                                        *)
(***************************************************************************)
\* keyof EntityPermissions: the capabilities the helper has a check for.
Permissions ==
    {"canViewEntity", "canEditEntity", "canDeleteEntity", "canManageMembers",
     "canInviteMembers", "canCreateProjects", "canManageProjects",
     "canViewProjects", "canManageApiKeys", "canViewApiKeys"}

\* ROLE_PERMISSIONS: the static table of the capabilities each role grants.
ROLE_PERMISSIONS ==
    [role \in EntityRole |->
        IF role = OWNER THEN Permissions
        ELSE IF role = ADMIN THEN Permissions \ {"canDeleteEntity"}
        ELSE {"canViewEntity", "canViewProjects"}]

\* PermissionHelper.getPermissionsForRole
getPermissionsForRole(role) == ROLE_PERMISSIONS[role]

\* EntityMemberHelper.getUserRole: the role of an active member only.
EntityMemberHelper_getUserRole(entityId, userId) ==
    {m.role : m \in {x \in MemberRows(entityId, userId) : x.is_active}}

\* PermissionHelper.getUserRole: the roles the select returns (none for
\* null); the query filters on entity_id and user_id.
PermissionHelper_getUserRole(entityId, userId) ==
    {m.role : m \in MemberRows(entityId, userId)}

\* The value a call returns in place of a role or of permissions: null.
NoRole == "null"

\* PermissionHelper.getUserPermissions: the role, then its permissions.
GetUserPermissions(c) ==
    /\ CanStart(c)
    /\ \E entityId \in EntityIds, userId \in Users :
         LET cl == Start("getUserPermissions", userId, entityId, "", Null,
                         "", NoSlug)
             role == PermissionHelper_getUserRole(entityId, userId)
         IN  IF role = {}
             THEN Return(c, [cl EXCEPT !.found = NoRole], "ok")
             ELSE \E r \in role :
                    Return(c, [cl EXCEPT !.found = r,
                                         !.retList = getPermissionsForRole(r)],
                           "ok")
    /\ UNCHANGED <<entities, members, invitations, nextEntityId,
                   nextMemberId, nextInvitationId, now>>

\* A boolean as a call returns it.
Bool(b) == IF b THEN "true" ELSE "false"

\* permissions?.[permission] ?? false, over getUserPermissions.
HasPermission(entityId, userId, permission) ==
    \E r \in PermissionHelper_getUserRole(entityId, userId) :
        permission \in getPermissionsForRole(r)

\* canDeleteEntity and canInviteMembers: the select of the entity type;
\* false for no entity and for a personal entity.
\* (The call record keeps the capability asked for in its email field.)
CheckEntityType(c, op, permission) ==
    /\ CanStart(c)
    /\ \E entityId \in 1..MaxEntities, userId \in Users :
         LET cl == Start(op, userId, entityId, "", Null, "", NoSlug)
             entity == getEntity(entityId)
         IN  IF entity = {}
             THEN Return(c, [cl EXCEPT !.found = Bool(FALSE)], "ok")
             ELSE IF \E e \in entity : e.entity_type = PERSONAL
                  THEN Return(c, [cl EXCEPT !.found = Bool(FALSE)], "ok")
                  ELSE Goto(c, [cl EXCEPT !.email = permission],
                            "can_permissions")
    /\ UNCHANGED <<entities, members, invitations, nextEntityId,
                   nextMemberId, nextInvitationId, now>>

\* PermissionHelper.canDeleteEntity
CanDeleteEntity(c) == CheckEntityType(c, "canDeleteEntity", "canDeleteEntity")

\* PermissionHelper.canInviteMembers
CanInviteMembers(c) ==
    CheckEntityType(c, "canInviteMembers", "canInviteMembers")

\* canDeleteEntity and canInviteMembers: getUserPermissions and the answer.
Can_GetUserPermissions(c) ==
    /\ pc[c] = "can_permissions"
    /\ Return(c, [call[c] EXCEPT
                    !.found = Bool(HasPermission(call[c].entityId,
                                                 call[c].userId,
                                                 call[c].email)),
                    !.email = ""], "ok")
    /\ UNCHANGED <<entities, members, invitations, nextEntityId,
                   nextMemberId, nextInvitationId, now>>

\* PermissionHelper.canManageMembers: getUserPermissions and the answer.
CanManageMembers(c) ==
    /\ CanStart(c)
    /\ \E entityId \in 1..MaxEntities, userId \in Users :
         Return(c, [Start("canManageMembers", userId, entityId, "", Null, "",
                          NoSlug)
                      EXCEPT !.found = Bool(HasPermission(entityId, userId,
                                                          "canManageMembers"))],
                "ok")
    /\ UNCHANGED <<entities, members, invitations, nextEntityId,
                   nextMemberId, nextInvitationId, now>>

\* The capabilities callers assert in the model: one that every role
\* grants, one that the member role lacks, one that only the owner has.
AssertedPermissions ==
    {"canViewEntity", "canManageMembers", "canDeleteEntity"}

\* The errorMessage argument: absent, or a message of the caller.
ErrorMessages == {"", "Not allowed"}

\* PermissionHelper.assertPermission: getUserPermissions, then the two
\* throws, each with errorMessage when the caller gave one.  (The call
\* record keeps the capability in its email field and errorMessage in its
\* role field; the message 'User lacks permission: ...' is kept without the
\* capability name.)
AssertPermission(c) ==
    /\ CanStart(c)
    /\ \E entityId \in EntityIds, userId \in Users,
          permission \in AssertedPermissions,
          errorMessage \in ErrorMessages :
         LET cl == Start("assertPermission", userId, entityId, errorMessage,
                         Null, permission, NoSlug)
             role == PermissionHelper_getUserRole(entityId, userId)
         IN  IF role = {}
             THEN Return(c, cl,
                         IF errorMessage # "" THEN errorMessage
                         ELSE "User is not a member of this entity")
             ELSE \E r \in role :
                    IF permission \notin getPermissionsForRole(r)
                    THEN Return(c, cl,
                                IF errorMessage # "" THEN errorMessage
                                ELSE "User lacks permission")
                    ELSE Return(c, cl, "ok")
    /\ UNCHANGED <<entities, members, invitations, nextEntityId,
                   nextMemberId, nextInvitationId, now>>

\* The EntityRole enum as the helpers and the middleware use it: the
\* members OWNER, ADMIN and MEMBER.  Any other member name reads as
\* undefined.
Undefined == "undefined"

EntityRoleEnum(name) ==
    IF name = "OWNER" THEN OWNER
    ELSE IF name = "ADMIN" THEN ADMIN
    ELSE IF name = "MEMBER" THEN MEMBER
    ELSE Undefined

\* getMinimumRoleForPermission: const roles = [EntityRole.VIEWER,
\* EntityRole.MANAGER, EntityRole.ADMIN]
MinimumRoleScan ==
    <<EntityRoleEnum("VIEWER"), EntityRoleEnum("MANAGER"),
      EntityRoleEnum("ADMIN")>>

\* The loop of getMinimumRoleForPermission: the first role of the list whose
\* entry in ROLE_PERMISSIONS has the capability, null when none has;
\* ROLE_PERMISSIONS[undefined] is undefined and reading a property of it
\* throws a TypeError.
RECURSIVE ScanRoles(_, _)
ScanRoles(roles, permission) ==
    IF roles = <<>> THEN NoRole
    ELSE IF Head(roles) \notin DOMAIN ROLE_PERMISSIONS THEN "TypeError"
    ELSE IF permission \in ROLE_PERMISSIONS[Head(roles)] THEN Head(roles)
    ELSE ScanRoles(Tail(roles), permission)

\* PermissionHelper.getMinimumRoleForPermission
GetMinimumRoleForPermission(c) ==
    /\ CanStart(c)
    /\ \E permission \in Permissions :
         LET cl == Start("getMinimumRoleForPermission", "", Null, "", Null,
                         permission, NoSlug)
             found == ScanRoles(MinimumRoleScan, permission)
         IN  IF found = "TypeError"
             THEN Return(c, cl, "TypeError")
             ELSE Return(c, [cl EXCEPT !.found = found], "ok")
    /\ UNCHANGED <<entities, members, invitations, nextEntityId,
                   nextMemberId, nextInvitationId, now>>

(***************************************************************************)
(* Middleware                                                              *)
(***************************************************************************)
\* EntityHelper.getEntityBySlug: the rows the select returns.
getEntityBySlug(slug) == {e \in entities : e.entity_slug = slug}

\* The slugs a request carries in its URL: those of the entities, one that
\* no entity has, and none.
RouteSlugs ==
    {e.entity_slug : e \in entities}
       \cup {[i \in 1..DEFAULT_SLUG_LENGTH |-> "z"], NoSlug}

\* createEntityContextMiddleware: the checks of the request and
\* getEntityBySlug.  The outcome is the response sent, or "next" when the
\* downstream handler is run.  getUserId gives "" for an unauthenticated
\* request.
EntityContextMiddleware(c) ==
    /\ CanStart(c)
    /\ \E entitySlug \in RouteSlugs, userId \in Users \cup {""},
          allowUnauthenticated \in BOOLEAN :
         LET cl == Start("entityContext", userId, Null, "", Null, "",
                         entitySlug)
             entity == getEntityBySlug(entitySlug)
         IN  IF entitySlug = NoSlug
             THEN Return(c, cl, "400 Entity slug is required")
             ELSE IF userId = "" /\ ~ allowUnauthenticated
                  THEN Return(c, cl, "401 Authentication required")
                  ELSE IF entity = {}
                       THEN Return(c, cl, "404 Entity not found")
                       ELSE \E e \in entity :
                              IF userId = "" /\ allowUnauthenticated
                              THEN Return(c, [cl EXCEPT !.retEntity = e.id],
                                          "next")
                              ELSE Goto(c, [cl EXCEPT !.entityId = e.id],
                                        "ctx_role")
    /\ UNCHANGED <<entities, members, invitations, nextEntityId,
                   nextMemberId, nextInvitationId, now>>

\* createEntityContextMiddleware: getUserRole, then the context is set and
\* the downstream handler is run.
EntityContextMiddleware_GetUserRole(c) ==
    /\ pc[c] = "ctx_role"
    /\ LET userRole ==
               PermissionHelper_getUserRole(call[c].entityId, call[c].userId)
       IN  IF userRole = {}
           THEN Return(c, call[c], "403 Access denied")
           ELSE \E r \in userRole :
                  Return(c, [call[c] EXCEPT
                               !.retEntity = call[c].entityId,
                               !.found = r,
                               !.retList = getPermissionsForRole(r)],
                         "next")
    /\ UNCHANGED <<entities, members, invitations, nextEntityId,
                   nextMemberId, nextInvitationId, now>>

(***************************************************************************)
(* slug-generator: generateUniqueSlug(baseSlug, existingSlugs) and the     *)
(* calls of the pure slug functions.                                       *)
(***************************************************************************)
DigitChars == <<"0", "1", "2", "3", "4", "5", "6", "7", "8", "9">>

\* Number.prototype.toString for a positive integer.
RECURSIVE toString(_)
toString(i) ==
    IF i < 10
    THEN <<DigitChars[i + 1]>>
    ELSE Append(toString(i \div 10), DigitChars[(i % 10) + 1])

\* String.prototype.slice(0, end) for a non-negative end.
slice(str, end) ==
    IF Len(str) > end THEN SubSeq(str, 1, end) ELSE str

\* The candidate of round i of the suffix loop.
SuffixCandidate(normalized, i) ==
    LET suffix == toString(i)
    IN  slice(slice(normalized, 12 - Len(suffix)) \o suffix, 12)

\* The suffix loop: the candidate of the first round of 1..999 whose
\* candidate is free and valid, or no candidate when no round has one.
SuffixLoop(normalized, existingSlugs) ==
    LET rounds == {i \in 1..(SUFFIX_LIMIT - 1) :
                      /\ SuffixCandidate(normalized, i) \notin existingSlugs
                      /\ validateSlug(SuffixCandidate(normalized, i))}
    IN  IF rounds = {}
        THEN {}
        ELSE {SuffixCandidate(normalized,
                              CHOOSE i \in rounds : \A j \in rounds : i <= j)}

\* A generateUniqueSlug that returns the free base without validating it.
generateUniqueSlug_Unvalidated(baseSlug, existingSlugs) ==
    LET normalized == slice(normalizeSlug(baseSlug), 8)
    IN  IF normalized \notin existingSlugs
        THEN {normalized}
        ELSE IF SuffixLoop(normalized, existingSlugs) # {}
             THEN SuffixLoop(normalized, existingSlugs)
             ELSE generateEntitySlug(DEFAULT_SLUG_LENGTH)

\* generateUniqueSlug: the slugs the call can return (one, or any of the
\* random slugs of the fallback).
generateUniqueSlug(baseSlug, existingSlugs) ==
    LET normalized == slice(normalizeSlug(baseSlug), 8)
    IN  IF normalized \notin existingSlugs /\ validateSlug(normalized)
        THEN {normalized}
        ELSE IF SuffixLoop(normalized, existingSlugs) # {}
             THEN SuffixLoop(normalized, existingSlugs)
             ELSE generateEntitySlug(DEFAULT_SLUG_LENGTH)

\* The text the slug functions are called with is a prefix of this one.
SlugText ==
    <<"M", "y", "-", "O", "r", "g", "_", "9", "a", " ", "n", "i", "Z",
      "a", "t", "!", "i", "0", "n">>

SlugInputs == {SubSeq(SlugText, 1, n) : n \in 0..Len(SlugText)}

\* The base slugs generateUniqueSlug is called with: normalized to fewer
\* than 5, to 5, 6, 7, 8 and to more than 8 characters.
BaseSlugs ==
    {SubSeq(SlugText, 1, n) : n \in {0, 5, 7, 8, 9, 11, 12, Len(SlugText)}}

\* Every slug the suffix loop can try for a base.
AllSuffixed(baseSlug) ==
    LET normalized == slice(normalizeSlug(baseSlug), 8)
    IN  {normalized} \cup
        {SuffixCandidate(normalized, i) : i \in 1..(SUFFIX_LIMIT - 1)}

\* The sets of existing slugs generateUniqueSlug is called with for a base:
\* none, the base, the base and its first candidates, every candidate.
ExistingSlugSets(baseSlug) ==
    LET normalized == slice(normalizeSlug(baseSlug), 8)
    IN  { {},
          {normalized},
          {normalized, SuffixCandidate(normalized, 1)},
          {normalized, SuffixCandidate(normalized, 1),
           SuffixCandidate(normalized, 2), SuffixCandidate(normalized, 10),
           SuffixCandidate(normalized, 100)},
          {SuffixCandidate(normalized, 1)},
          AllSuffixed(baseSlug) }

\* What generateUniqueSlug returns for each of the calls made.
GenerateUniqueSlugResults ==
    [baseSlug \in BaseSlugs |->
        [existingSlugs \in ExistingSlugSets(baseSlug) |->
            generateUniqueSlug(baseSlug, existingSlugs)]]

\* A call of generateUniqueSlug: the base slug is kept in slug, the existing
\* slugs in todo and the slug returned in retList.
GenerateUniqueSlug(c) ==
    /\ CanStart(c)
    /\ \E baseSlug \in BaseSlugs :
         \E existingSlugs \in ExistingSlugSets(baseSlug) :
           \E slug \in GenerateUniqueSlugResults[baseSlug][existingSlugs] :
              Return(c, [Start("generateUniqueSlug", "", Null, "", Null, "",
                               baseSlug)
                           EXCEPT !.todo = existingSlugs,
                                  !.retList = {slug}],
                     "ok")
    /\ UNCHANGED <<entities, members, invitations, nextEntityId,
                   nextMemberId, nextInvitationId, now>>

\* A call of validateSlug(normalizeSlug(input)): the input is kept in slug,
\* the normalized slug in retList and the answer in found.
ValidateNormalized(c) ==
    /\ CanStart(c)
    /\ \E input \in SlugInputs :
         Return(c, [Start("validateSlug", "", Null, "", Null, "", input)
                      EXCEPT !.retList = {normalizeSlug(input)},
                             !.found = Bool(validateSlug(normalizeSlug(input)))],
                "ok")
    /\ UNCHANGED <<entities, members, invitations, nextEntityId,
                   nextMemberId, nextInvitationId, now>>

(***************************************************************************)
(* Middleware: the role gate                                               *)
(***************************************************************************)
\* A role hierarchy that ranks every role alike.
roleHierarchy_Flat == [r \in EntityRole |-> 0]

\* createRequireRoleMiddleware: roleHierarchy
roleHierarchy ==
    [r \in EntityRole |-> IF r = MEMBER THEN 0 ELSE IF r = ADMIN THEN 1 ELSE 2]

\* roleHierarchy[userRole] < roleHierarchy[minimumRole]; a role the record
\* does not hold reads as undefined, and no comparison with it is true.
RankBelow(userRole, minimumRole) ==
    /\ userRole \in DOMAIN roleHierarchy
    /\ minimumRole \in DOMAIN roleHierarchy
    /\ roleHierarchy[userRole] < roleHierarchy[minimumRole]

\* createRequireRoleMiddleware: the gate runs as the handler downstream of
\* the entity context middleware, on the userRole that middleware set (none
\* for an unauthenticated request let through).  The minimum role is kept
\* in role and the outcome is the response sent, or "next" when the handler
\* behind the gate is run.
RequireRoleMiddleware(c) ==
    /\ pc[c] = "done"
    /\ call[c].op = "entityContext"
    /\ call[c].result = "next"
    /\ \E minimumRole \in EntityRole :
         LET cl == [call[c] EXCEPT !.op = "requireRole",
                                   !.role = minimumRole]
             userRole == call[c].found
         IN  IF userRole = ""
             THEN Return(c, cl, "500 Entity context not found")
             ELSE IF RankBelow(userRole, minimumRole)
                  THEN Return(c, cl, "403 Insufficient role")
                  ELSE Return(c, cl, "next")
    /\ UNCHANGED <<entities, members, invitations, nextEntityId,
                   nextMemberId, nextInvitationId, now>>

(***************************************************************************)
(* Migration 001: migrateUsersToPersonalEntities                           *)
(***************************************************************************)
\* generateSlug of the migration: the source lowercased, stripped, cut to 8
\* characters and padded with '0', or a random slug when there is no source.
generateSlug(source) ==
    IF source # <<>>
    THEN LET lowered == [i \in 1..Len(source) |-> toLowerCase(source[i])]
             cut == slice(SelectSeq(lowered, IsSlugChar), 8)
         IN  {cut \o [i \in 1..(8 - Len(cut)) |-> "0"]}
    ELSE {[i \in 1..8 |-> ch] : ch \in GenChars}

\* slug_source of the users query: the organization_path of the user's
\* settings, or 8 characters of a random MD5.
SlugSources ==
    {<<"m", "y", "-", "o", "r", "g">>} \cup {[i \in 1..8 |-> ch] : ch \in GenChars}

\* The personal entities in which the migration sees the user: those where
\* the user holds an active membership with role 'admin'.
MigratedEntitiesOf(userId) ==
    {e \in entities :
        /\ e.entity_type = PERSONAL
        /\ \E m \in members :
              /\ m.entity_id = e.id
              /\ m.user_id = userId
              /\ m.role = ADMIN
              /\ m.is_active}

\* The end of one round of the migration loop: the next user, or the end.
MigrateNext(c, cl) ==
    IF cl.todo = {}
    THEN Return(c, cl, "ok")
    ELSE Goto(c, cl, "mig_entity")

\* migrateUsersToPersonalEntities: the query for the users without a
\* personal entity.  The users left are kept in todo.
MigrateUsersToPersonalEntities(c) ==
    /\ CanStart(c)
    /\ LET usersWithoutEntities ==
               {u.firebase_uid : u \in {v \in usersTable :
                                          MigratedEntitiesOf(v.firebase_uid) = {}}}
       IN  MigrateNext(c, [Start("migrateUsersToPersonalEntities", "", Null,
                                 "", Null, "", NoSlug)
                             EXCEPT !.todo = usersWithoutEntities])
    /\ UNCHANGED <<entities, members, invitations, nextEntityId,
                   nextMemberId, nextInvitationId, now>>

\* The loop body, INSERT INTO entities: with the slug made of the slug
\* source at the first attempt, with a random slug after a unique violation
\* (attempts = 1), whose own violation is thrown.
Migrate_InsertEntity(c) ==
    /\ pc[c] = "mig_entity"
    /\ nextEntityId <= MaxEntities
    /\ \E firebaseUid \in IF call[c].userId = "" THEN call[c].todo
                          ELSE {call[c].userId} :
       \E source \in IF call[c].attempts = 0 THEN SlugSources ELSE {<<>>} :
       \E slug \in generateSlug(source) :
         IF SlugUnique(slug)
         THEN /\ entities' = entities \cup
                    {[id |-> nextEntityId, entity_slug |-> slug,
                      entity_type |-> PERSONAL]}
              /\ nextEntityId' = nextEntityId + 1
              /\ Goto(c, [call[c] EXCEPT !.userId = firebaseUid,
                                         !.todo = @ \ {firebaseUid},
                                         !.entityId = nextEntityId],
                      "mig_member")
         ELSE /\ UNCHANGED <<entities, nextEntityId>>
              /\ IF call[c].attempts = 0
                 THEN Goto(c, [call[c] EXCEPT !.userId = firebaseUid,
                                              !.todo = @ \ {firebaseUid},
                                              !.attempts = 1],
                           "mig_entity")
                 ELSE Return(c, call[c], "unique_violation")
    /\ UNCHANGED <<members, invitations, nextMemberId, nextInvitationId, now>>

\* The loop body, INSERT INTO entity_members: the user as 'admin'.
Migrate_InsertMember(c) ==
    /\ pc[c] = "mig_member"
    /\ LET entityId == call[c].entityId
           userId == call[c].userId
       IN  IF CanInsertMember(entityId, userId, ADMIN)
           THEN /\ members' = members \cup {NewMember(entityId, userId, ADMIN)}
                /\ nextMemberId' = nextMemberId + 1
                /\ MigrateNext(c, [call[c] EXCEPT !.userId = "",
                                                  !.entityId = Null,
                                                  !.attempts = 0,
                                                  !.retCount = @ + 1])
           ELSE /\ Return(c, call[c], InsertMemberError(entityId))
                /\ UNCHANGED <<members, nextMemberId>>
    /\ UNCHANGED <<entities, invitations, nextEntityId, nextInvitationId, now>>

Init ==
    /\ entities = {}
    /\ members = {}
    /\ invitations = {}
    /\ nextEntityId = 1
    /\ nextMemberId = 1
    /\ nextInvitationId = 1
    /\ now = 0
    /\ pc = [c \in Callers |-> "idle"]
    /\ call = [c \in Callers |-> NoCall]


(***************************************************************************)
(* Entities: personal entities and organizations created from an empty     *)
(* store.                                                                  *)
(***************************************************************************)
Next ==
    \E c \in Callers :
        \/ Complete(c)
        \/ GetOrCreatePersonalEntity(c)
        \/ GetUserEntities(c)
        \/ CreatePersonalEntity_InsertEntity(c)
        \/ CreatePersonalEntity_InsertMember(c)
        \/ CreateOrganizationEntity(c)
        \/ GenerateUniqueSlug_Attempt(c)
        \/ CreateOrganizationEntity_InsertEntity(c)
        \/ CreateOrganizationEntity_InsertMember(c)

Spec == Init /\ [][Next]_vars

(***************************************************************************)
(* Entities created, renamed and deleted, from an empty store.             *)
(***************************************************************************)
NextEntities ==
    \E c \in Callers :
        \/ Complete(c)
        \/ GetOrCreatePersonalEntity(c)
        \/ CreatePersonalEntity_InsertEntity(c)
        \/ CreatePersonalEntity_InsertMember(c)
        \/ CreateOrganizationEntity(c)
        \/ GenerateUniqueSlug_Attempt(c)
        \/ CreateOrganizationEntity_InsertEntity(c)
        \/ CreateOrganizationEntity_InsertMember(c)
        \/ UpdateEntity(c)
        \/ UpdateEntity_CheckAvailable(c)
        \/ UpdateEntity_Update(c)
        \/ DeleteEntity(c)
        \/ DeleteEntity_Delete(c)

SpecEntities == Init /\ [][NextEntities]_vars

\* An organization created by u1 and the personal entity of u2: the state
\* after createOrganizationEntity("u1") and getOrCreatePersonalEntity("u2").
InitWorkspaces ==
    /\ entities =
         {[id |-> 1, entity_slug |-> [i \in 1..DEFAULT_SLUG_LENGTH |-> "a"],
           entity_type |-> ORGANIZATION],
          [id |-> 2, entity_slug |-> [i \in 1..DEFAULT_SLUG_LENGTH |-> "b"],
           entity_type |-> PERSONAL]}
    /\ members =
         {[id |-> 1, entity_id |-> 1, user_id |-> "u1", role |-> OWNER,
           is_active |-> TRUE],
          [id |-> 2, entity_id |-> 2, user_id |-> "u2", role |-> OWNER,
           is_active |-> TRUE]}
    /\ invitations = {}
    /\ nextEntityId = 3
    /\ nextMemberId = 3
    /\ nextInvitationId = 1
    /\ now = 0
    /\ pc = [c \in Callers |-> "idle"]
    /\ call = [c \in Callers |-> NoCall]

\* An organization created by u1: the state after
\* createOrganizationEntity("u1").
InitOrganization ==
    /\ entities =
         {[id |-> 1, entity_slug |-> [i \in 1..DEFAULT_SLUG_LENGTH |-> "a"],
           entity_type |-> ORGANIZATION]}
    /\ members =
         {[id |-> 1, entity_id |-> 1, user_id |-> "u1", role |-> OWNER,
           is_active |-> TRUE]}
    /\ invitations = {}
    /\ nextEntityId = 2
    /\ nextMemberId = 2
    /\ nextInvitationId = 1
    /\ now = 0
    /\ pc = [c \in Callers |-> "idle"]
    /\ call = [c \in Callers |-> NoCall]

(***************************************************************************)
(* Memberships: the member helper over an organization and a personal      *)
(* entity.                                                                 *)
(***************************************************************************)
NextMembers ==
    \E c \in Callers :
        \/ Complete(c)
        \/ AddMember(c)
        \/ AddMember_Write(c)
        \/ UpdateMemberRole(c)
        \/ UpdateMemberRole_GetMember(c)
        \/ UpdateMemberRole_Update(c)
        \/ RemoveMember(c)
        \/ RemoveMember_GetMember(c)
        \/ RemoveMember_Update(c)

SpecMembers == InitWorkspaces /\ [][NextMembers]_vars

(***************************************************************************)
(* Permissions: the permission helper and the context middleware, while    *)
(* members are added and removed.                                          *)
(***************************************************************************)
NextPermissions ==
    \E c \in Callers :
        \/ Complete(c)
        \/ AddMember(c)
        \/ AddMember_Write(c)
        \/ RemoveMember(c)
        \/ RemoveMember_GetMember(c)
        \/ RemoveMember_Update(c)
        \/ GetUserPermissions(c)
        \/ CanDeleteEntity(c)
        \/ CanInviteMembers(c)
        \/ Can_GetUserPermissions(c)
        \/ CanManageMembers(c)
        \/ AssertPermission(c)
        \/ GetMinimumRoleForPermission(c)
        \/ EntityContextMiddleware(c)
        \/ EntityContextMiddleware_GetUserRole(c)

SpecPermissions == InitWorkspaces /\ [][NextPermissions]_vars

(***************************************************************************)
(* Listing: getUserEntities next to addMember and removeMember, over an    *)
(* organization of u1 that u2 has joined.                                  *)
(***************************************************************************)
\* The state after createOrganizationEntity("u1") and
\* addMember(1, "u2", member).
InitListing ==
    /\ entities =
         {[id |-> 1, entity_slug |-> [i \in 1..DEFAULT_SLUG_LENGTH |-> "a"],
           entity_type |-> ORGANIZATION]}
    /\ members =
         {[id |-> 1, entity_id |-> 1, user_id |-> "u1", role |-> OWNER,
           is_active |-> TRUE],
          [id |-> 2, entity_id |-> 1, user_id |-> "u2", role |-> MEMBER,
           is_active |-> TRUE]}
    /\ invitations = {}
    /\ nextEntityId = 2
    /\ nextMemberId = 3
    /\ nextInvitationId = 1
    /\ now = 0
    /\ pc = [c \in Callers |-> "idle"]
    /\ call = [c \in Callers |-> NoCall]

NextListing ==
    \E c \in Callers :
        \/ Complete(c)
        \/ GetUserEntities(c)
        \/ CreatePersonalEntity_InsertEntity(c)
        \/ CreatePersonalEntity_InsertMember(c)
        \/ AddMember(c)
        \/ AddMember_Write(c)
        \/ RemoveMember(c)
        \/ RemoveMember_GetMember(c)
        \/ RemoveMember_Update(c)

SpecListing == InitListing /\ [][NextListing]_vars

(***************************************************************************)
(* Deletion: deleteEntity next to createInvitation, over an organization   *)
(* with members and an invitation, and a personal entity.                  *)
(***************************************************************************)
\* An organization of u1 with u2 as a member and a pending invitation for
\* e2, and the personal entity of u2: the state after createOrganizationEntity,
\* createPersonalEntity, addMember and createInvitation.
InitDissolve ==
    /\ entities =
         {[id |-> 1, entity_slug |-> [i \in 1..DEFAULT_SLUG_LENGTH |-> "a"],
           entity_type |-> ORGANIZATION],
          [id |-> 2, entity_slug |-> [i \in 1..DEFAULT_SLUG_LENGTH |-> "b"],
           entity_type |-> PERSONAL]}
    /\ members =
         {[id |-> 1, entity_id |-> 1, user_id |-> "u1", role |-> OWNER,
           is_active |-> TRUE],
          [id |-> 2, entity_id |-> 2, user_id |-> "u2", role |-> OWNER,
           is_active |-> TRUE],
          [id |-> 3, entity_id |-> 1, user_id |-> "u2", role |-> MEMBER,
           is_active |-> TRUE]}
    /\ invitations =
         {[id |-> 1, entity_id |-> 1, email |-> "e2", role |-> MEMBER,
           status |-> PENDING, invited_by_user_id |-> "u1", token |-> 1,
           expires_at |-> INVITATION_EXPIRY_DAYS, accepted_at |-> NoTime]}
    /\ nextEntityId = 3
    /\ nextMemberId = 4
    /\ nextInvitationId = 2
    /\ now = 0
    /\ pc = [c \in Callers |-> "idle"]
    /\ call = [c \in Callers |-> NoCall]

NextDissolve ==
    \E c \in Callers :
        \/ Complete(c)
        \/ DeleteEntity(c)
        \/ DeleteEntity_Delete(c)
        \/ CreateInvitation(c)
        \/ CreateInvitation_CheckPending(c)
        \/ CreateInvitation_Insert(c)

SpecDissolve == InitDissolve /\ [][NextDissolve]_vars

(***************************************************************************)
(* Invitations: the invitation helper, with members added and removed.     *)
(***************************************************************************)
NextInvitations ==
    \/ Tick
    \/ \E c \in Callers :
        \/ Complete(c)
        \/ CreateInvitation(c)
        \/ CreateInvitation_CheckPending(c)
        \/ CreateInvitation_Insert(c)
        \/ AcceptInvitation(c)
        \/ AcceptInvitation_MarkExpired(c)
        \/ AcceptInvitation_InsertMember(c)
        \/ AcceptInvitation_MarkAccepted(c)
        \/ DeclineInvitation(c)
        \/ DeclineInvitation_MarkDeclined(c)
        \/ CancelInvitation(c)
        \/ ExpireOldInvitations(c)

SpecInvitations == InitOrganization /\ [][NextInvitations]_vars

\* The organization of u1 with one invitation pending for the email of u2:
\* the state after createOrganizationEntity("u1") and createInvitation.
InitInvited ==
    /\ entities =
         {[id |-> 1, entity_slug |-> [i \in 1..DEFAULT_SLUG_LENGTH |-> "a"],
           entity_type |-> ORGANIZATION]}
    /\ members =
         {[id |-> 1, entity_id |-> 1, user_id |-> "u1", role |-> OWNER,
           is_active |-> TRUE]}
    /\ invitations =
         {[id |-> 1, entity_id |-> 1, email |-> "e2", role |-> ADMIN,
           status |-> PENDING, invited_by_user_id |-> "u1", token |-> 1,
           expires_at |-> INVITATION_EXPIRY_DAYS, accepted_at |-> NoTime]}
    /\ nextEntityId = 2
    /\ nextMemberId = 2
    /\ nextInvitationId = 2
    /\ now = 0
    /\ pc = [c \in Callers |-> "idle"]
    /\ call = [c \in Callers |-> NoCall]

(***************************************************************************)
(* Joining: an invitation accepted while members are added and removed.    *)
(***************************************************************************)
NextJoin ==
    \/ Tick
    \/ \E c \in Callers :
        \/ Complete(c)
        \/ AcceptInvitation(c)
        \/ AcceptInvitation_MarkExpired(c)
        \/ AcceptInvitation_InsertMember(c)
        \/ AcceptInvitation_MarkAccepted(c)
        \/ AddMember(c)
        \/ AddMember_Write(c)
        \/ RemoveMember(c)
        \/ RemoveMember_GetMember(c)
        \/ RemoveMember_Update(c)

SpecJoin == InitInvited /\ [][NextJoin]_vars

\* Two organizations of u1, each with an invitation pending for the email
\* of u2, who was added to the first and removed from it: the state after
\* two createOrganizationEntity("u1"), addMember(1, "u2", MEMBER),
\* removeMember(1, "u2") and a createInvitation in each organization.
InitSignup ==
    /\ entities =
         {[id |-> 1, entity_slug |-> [i \in 1..DEFAULT_SLUG_LENGTH |-> "a"],
           entity_type |-> ORGANIZATION],
          [id |-> 2, entity_slug |-> [i \in 1..DEFAULT_SLUG_LENGTH |-> "b"],
           entity_type |-> ORGANIZATION]}
    /\ members =
         {[id |-> 1, entity_id |-> 1, user_id |-> "u1", role |-> OWNER,
           is_active |-> TRUE],
          [id |-> 2, entity_id |-> 2, user_id |-> "u1", role |-> OWNER,
           is_active |-> TRUE],
          [id |-> 3, entity_id |-> 1, user_id |-> "u2", role |-> MEMBER,
           is_active |-> FALSE]}
    /\ invitations =
         {[id |-> 1, entity_id |-> 1, email |-> "e2", role |-> ADMIN,
           status |-> PENDING, invited_by_user_id |-> "u1", token |-> 1,
           expires_at |-> INVITATION_EXPIRY_DAYS, accepted_at |-> NoTime],
          [id |-> 2, entity_id |-> 2, email |-> "e2", role |-> MEMBER,
           status |-> PENDING, invited_by_user_id |-> "u1", token |-> 2,
           expires_at |-> INVITATION_EXPIRY_DAYS, accepted_at |-> NoTime]}
    /\ nextEntityId = 3
    /\ nextMemberId = 4
    /\ nextInvitationId = 3
    /\ now = 0
    /\ pc = [c \in Callers |-> "idle"]
    /\ call = [c \in Callers |-> NoCall]

(***************************************************************************)
(* Signing up: processNewUserInvitations as time passes.                   *)
(***************************************************************************)
NextSignup ==
    \/ Tick
    \/ \E c \in Callers :
        \/ Complete(c)
        \/ ProcessNewUserInvitations(c)
        \/ ProcessNewUserInvitations_Attempt(c)
        \/ AcceptInvitation_MarkExpired(c)
        \/ AcceptInvitation_InsertMember(c)
        \/ AcceptInvitation_MarkAccepted(c)

SpecSignup == InitSignup /\ [][NextSignup]_vars

(***************************************************************************)
(* The slug functions, called with the texts and the existing slugs above. *)
(***************************************************************************)
NextSlugs ==
    \E c \in Callers :
        \/ Complete(c)
        \/ GenerateUniqueSlug(c)
        \/ ValidateNormalized(c)

SpecSlugs == Init /\ [][NextSlugs]_vars

(***************************************************************************)
(* Requests through the entity context middleware and the role gate, as    *)
(* members are added to the two workspaces.                                *)
(***************************************************************************)
NextGate ==
    \E c \in Callers :
        \/ Complete(c)
        \/ AddMember(c)
        \/ AddMember_Write(c)
        \/ EntityContextMiddleware(c)
        \/ EntityContextMiddleware_GetUserRole(c)
        \/ RequireRoleMiddleware(c)

SpecGate == InitWorkspaces /\ [][NextGate]_vars

\* An organization of a user who makes no call here, with one invitation
\* pending; u1 and u2 hold no membership in it: the state after that user's
\* createOrganizationEntity and createInvitation.
InitRace ==
    /\ entities =
         {[id |-> 1, entity_slug |-> [i \in 1..DEFAULT_SLUG_LENGTH |-> "a"],
           entity_type |-> ORGANIZATION]}
    /\ members =
         {[id |-> 1, entity_id |-> 1, user_id |-> "u0", role |-> OWNER,
           is_active |-> TRUE]}
    /\ invitations =
         {[id |-> 1, entity_id |-> 1, email |-> "e2", role |-> MEMBER,
           status |-> PENDING, invited_by_user_id |-> "u0", token |-> 1,
           expires_at |-> INVITATION_EXPIRY_DAYS, accepted_at |-> NoTime]}
    /\ nextEntityId = 2
    /\ nextMemberId = 2
    /\ nextInvitationId = 2
    /\ now = 0
    /\ pc = [c \in Callers |-> "idle"]
    /\ call = [c \in Callers |-> NoCall]

(***************************************************************************)
(* One invitation accepted, declined and expired by concurrent callers.    *)
(***************************************************************************)
NextRace ==
    \/ Tick
    \/ \E c \in Callers :
        \/ Complete(c)
        \/ AcceptInvitation(c)
        \/ AcceptInvitation_MarkExpired(c)
        \/ AcceptInvitation_InsertMember(c)
        \/ AcceptInvitation_MarkAccepted(c)
        \/ DeclineInvitation(c)
        \/ DeclineInvitation_MarkDeclined(c)
        \/ ExpireOldInvitations(c)

SpecRace == InitRace /\ [][NextRace]_vars

(***************************************************************************)
(* The migration of the existing users, and their first logins after it.   *)
(***************************************************************************)
NextMigration ==
    \E c \in Callers :
        \/ Complete(c)
        \/ MigrateUsersToPersonalEntities(c)
        \/ Migrate_InsertEntity(c)
        \/ Migrate_InsertMember(c)
        \/ GetOrCreatePersonalEntity(c)
        \/ CreatePersonalEntity_InsertEntity(c)
        \/ CreatePersonalEntity_InsertMember(c)

SpecMigration == Init /\ [][NextMigration]_vars

(***************************************************************************)
(* Properties.                                                             *)
(***************************************************************************)
\* The messages of the errors that refuse an operation the entity kind or
\* the role involved does not permit.
InvalidOperation ==
    {"Cannot assign owner role. Use ownership transfer instead.",
     "Cannot change roles in personal entities",
     "Cannot change the owner's role"}

\* C1: however calls of getOrCreatePersonalEntity and getUserEntities are
\* interleaved, a user never has more than one personal entity.
C1_OnePersonalEntityPerUser ==
    \A u \in Users : Cardinality(PersonalEntitiesOf(u)) <= 1

\* C2: in every state, the intermediate states of createOrganizationEntity
\* included, every organization has an active owner membership.
C2_OrganizationHasOwner ==
    \A e \in entities :
        e.entity_type = ORGANIZATION =>
            \E m \in members :
                m.entity_id = e.id /\ m.role = OWNER /\ m.is_active

\* C3: an invitation that has left pending keeps its status; no later write
\* of acceptInvitation, declineInvitation or expireOldInvitations changes it.
C3_TerminalStatusIsFinal ==
    [][\A i \in invitations : \A j \in invitations' :
          (i.id = j.id /\ i.status # PENDING) => j.status = i.status]_vars

\* C4: there is at most one pending invitation per entity and email, also
\* when createInvitation calls run concurrently.
C4_OnePendingInvitationPerEmail ==
    \A i, j \in invitations :
        (/\ i.entity_id = j.entity_id
         /\ i.email = j.email
         /\ i.status = PENDING
         /\ j.status = PENDING) => i.id = j.id

\* C5: acceptInvitation on a pending invitation whose expiry lies before now
\* takes the failure path, which ends with "Invitation has expired", the
\* status expired and the memberships untouched; an invitation that has left
\* pending never returns to it, and acceptInvitation on it fails at once
\* without touching the memberships.
C5_ExpiredInvitationIsRefused ==
    [][\A c \in Callers :
          /\ (/\ pc[c] = "idle"
              /\ call'[c].op = "acceptInvitation"
              /\ \E i \in invitations :
                    /\ i.token = call'[c].token
                    /\ i.status = PENDING
                    /\ i.expires_at < now)
             => (pc'[c] = "acc_expire" /\ members' = members
                   /\ invitations' = invitations)
          /\ (pc[c] = "acc_expire" /\ pc'[c] # "acc_expire")
             => (/\ pc'[c] = "done"
                 /\ call'[c].result = "Invitation has expired"
                 /\ members' = members
                 /\ \A j \in invitations' :
                       j.token = call[c].token => j.status = EXPIRED)
          /\ (/\ pc[c] = "idle"
              /\ call'[c].op = "acceptInvitation"
              /\ \E i \in invitations :
                    i.token = call'[c].token /\ i.status # PENDING)
             => (/\ pc'[c] = "done"
                 /\ call'[c].result = "Invitation is no longer pending"
                 /\ members' = members
                 /\ invitations' = invitations)
          /\ \A i \in invitations : \A j \in invitations' :
                (i.id = j.id /\ i.status # PENDING) => j.status # PENDING]_vars

\* C5, reached: an accept of an expired invitation has failed and marked it
\* expired, a second accept of the same token has failed too, and no
\* membership beyond the owner's exists.
C5_Witness ==
    \E c, d \in Callers :
        /\ pc[c] = "done" /\ pc[d] = "done"
        /\ call[c].op = "acceptInvitation"
        /\ call[d].op = "acceptInvitation"
        /\ call[c].token = call[d].token
        /\ call[c].result = "Invitation has expired"
        /\ call[d].result = "Invitation is no longer pending"
        /\ \E i \in invitations :
              i.token = call[c].token /\ i.status = EXPIRED
        /\ \A m \in members : m.role = OWNER

\* C6: the step of acceptInvitation that inserts the membership is the step
\* that marks the invitation accepted: no state shows one without the other.
C6_AcceptIsAtomic ==
    [][\A c \in Callers :
          (/\ call[c].op = "acceptInvitation"
           /\ pc'[c] # pc[c]
           /\ members' # members)
          => \E i \in invitations' :
                i.token = call[c].token /\ i.status = ACCEPTED]_vars

\* C7: when acceptInvitation writes the membership of a user who has an
\* inactive membership in the entity, that row comes out active with the
\* role of the invitation.
C7_AcceptReactivatesMember ==
    [][\A c \in Callers :
          (/\ pc[c] = "acc_member"
           /\ pc'[c] # "acc_member"
           /\ \E m \in members :
                 /\ m.entity_id = call[c].entityId
                 /\ m.user_id = call[c].userId
                 /\ ~ m.is_active)
          => \E m \in members' :
                /\ m.entity_id = call[c].entityId
                /\ m.user_id = call[c].userId
                /\ m.is_active
                /\ m.role = call[c].role]_vars

\* C8: when addMember has found the removed (inactive) membership of the
\* pair, its write succeeds and leaves exactly one row for the pair: the row
\* with the id it had, active, carrying the new role.
C8_AddMemberReactivatesRow ==
    [][\A c \in Callers :
          (/\ call[c].op = "addMember"
           /\ call[c].found = "inactive"
           /\ pc[c] # "done"
           /\ pc'[c] = "done")
          => LET before == {m \in members :
                               /\ m.entity_id = call[c].entityId
                               /\ m.user_id = call[c].userId}
                 after == {m \in members' :
                              /\ m.entity_id = call[c].entityId
                              /\ m.user_id = call[c].userId}
             IN  /\ call'[c].result = "ok"
                 /\ Cardinality(after) = 1
                 /\ {m.id : m \in after} = {m.id : m \in before}
                 /\ \A m \in after : m.is_active /\ m.role = call[c].role
                 /\ members' \ after = members \ before]_vars

\* C8, reached: a membership was deactivated by removeMember and addMember
\* has reactivated it as an admin.
C8_Witness ==
    \E c \in Callers :
        /\ pc[c] = "done"
        /\ call[c].op = "addMember"
        /\ call[c].found = "reactivated"
        /\ call[c].result = "ok"
        /\ call[c].role = ADMIN
        /\ \E m \in members :
              /\ m.entity_id = call[c].entityId
              /\ m.user_id = call[c].userId
              /\ m.is_active
              /\ m.role = ADMIN

C10_UpdateMemberRoleRefused ==
    [][\A c \in Callers :
          /\ (/\ pc[c] = "idle"
              /\ call'[c].op = "updateMemberRole"
              /\ \/ call'[c].role = OWNER
                 \/ \E e \in entities :
                       /\ e.id = call'[c].entityId
                       /\ e.entity_type = PERSONAL)
             => (/\ pc'[c] = "done"
                 /\ call'[c].result \in InvalidOperation
                 /\ members' = members)
          /\ (/\ pc[c] = "umr_member"
              /\ pc'[c] # "umr_member"
              /\ \E m \in members :
                    /\ m.entity_id = call[c].entityId
                    /\ m.user_id = call[c].userId
                    /\ m.is_active
                    /\ m.role = OWNER)
             => (/\ pc'[c] = "done"
                 /\ call'[c].result \in InvalidOperation
                 /\ members' = members)]_vars

\* C10, reached: updateMemberRole on the owner of the organization has been
\* refused, and so has one on a personal entity.
C10_Witness ==
    \E c, d \in Callers :
        /\ pc[c] = "done" /\ pc[d] = "done"
        /\ call[c].op = "updateMemberRole"
        /\ call[c].result = "Cannot change the owner's role"
        /\ call[d].op = "updateMemberRole"
        /\ call[d].result = "Cannot change roles in personal entities"

\* C11: removeMember called on a personal entity, or finding the target an
\* active owner, fails and changes no membership; the write of removeMember
\* deletes no row: it leaves every row of the store in place and the row of
\* the pair inactive, with its id and role.
C11_RemoveMemberSoftDeletes ==
    [][\A c \in Callers :
          /\ (/\ pc[c] = "idle"
              /\ call'[c].op = "removeMember"
              /\ \E e \in entities :
                    /\ e.id = call'[c].entityId
                    /\ e.entity_type = PERSONAL)
             => (/\ pc'[c] = "done"
                 /\ call'[c].result =
                       "Cannot remove members from personal entities"
                 /\ members' = members)
          /\ (/\ pc[c] = "rm_member"
              /\ pc'[c] # "rm_member"
              /\ \E m \in members :
                    /\ m.entity_id = call[c].entityId
                    /\ m.user_id = call[c].userId
                    /\ m.is_active
                    /\ m.role = OWNER)
             => (/\ pc'[c] = "done"
                 /\ call'[c].result = "Cannot remove the entity owner"
                 /\ members' = members)
          /\ (call[c].op = "removeMember" /\ pc[c] # "done"
                /\ pc'[c] = "done" /\ call'[c].result = "ok")
             => (/\ {m.id : m \in members'} = {m.id : m \in members}
                 /\ \A m \in members : \E n \in members' :
                       /\ n.id = m.id
                       /\ n.entity_id = m.entity_id
                       /\ n.user_id = m.user_id
                       /\ n.role = m.role
                       /\ n.is_active =
                             IF /\ m.entity_id = call[c].entityId
                                /\ m.user_id = call[c].userId
                             THEN FALSE
                             ELSE m.is_active)]_vars

\* C11, reached: removeMember on the owner has been refused, and removeMember
\* on an admin has left the admin's row in place, inactive.
C11_Witness ==
    \E c, d \in Callers :
        /\ pc[c] = "done" /\ pc[d] = "done"
        /\ call[c].op = "removeMember"
        /\ call[c].result = "Cannot remove the entity owner"
        /\ call[d].op = "removeMember"
        /\ call[d].result = "ok"
        /\ \E m \in members :
              /\ m.entity_id = call[d].entityId
              /\ m.user_id = call[d].userId
              /\ m.role = ADMIN
              /\ ~ m.is_active

\* C12: no step of removeMember on the only active admin of an entity
\* deactivates that membership or ends the call with success.
C12_LastAdminIsKept ==
    [][\A c \in Callers :
          (/\ call[c].op = "removeMember"
           /\ pc[c] # "done"
           /\ pc'[c] # pc[c]
           /\ \E m \in members :
                 /\ m.entity_id = call[c].entityId
                 /\ m.user_id = call[c].userId
                 /\ m.role = ADMIN
                 /\ m.is_active
                 /\ \A n \in members :
                       (/\ n.entity_id = m.entity_id
                        /\ n.role = ADMIN
                        /\ n.is_active) => n.id = m.id)
          => (/\ \E m \in members' :
                    /\ m.entity_id = call[c].entityId
                    /\ m.user_id = call[c].userId
                    /\ m.is_active
              /\ pc'[c] = "done" => call'[c].result # "ok")]_vars

\* C13: the write of updateMemberRole on a pair that has no active
\* membership fails with "Member not found or inactive" and changes no row;
\* no step of updateMemberRole changes or reactivates an inactive row.
C13_UpdateMemberRoleNotFound ==
    [][\A c \in Callers :
          (call[c].op = "updateMemberRole" /\ pc[c] # "done"
             /\ pc'[c] # pc[c])
          => /\ \A m \in members : ~ m.is_active => m \in members'
             /\ (/\ pc[c] = "umr_update"
                 /\ ~ \E m \in members :
                        /\ m.entity_id = call[c].entityId
                        /\ m.user_id = call[c].userId
                        /\ m.is_active)
                => (/\ pc'[c] = "done"
                    /\ call'[c].result = "Member not found or inactive"
                    /\ members' = members)]_vars

\* C13, reached: updateMemberRole with a non-owner role on an organization
\* has failed as not found on a pair whose only row is inactive.
C13_Witness ==
    \E c \in Callers :
        /\ pc[c] = "done"
        /\ call[c].op = "updateMemberRole"
        /\ call[c].role # OWNER
        /\ call[c].result = "Member not found or inactive"
        /\ \E e \in entities :
              e.id = call[c].entityId /\ e.entity_type = ORGANIZATION
        /\ \E m \in members :
              /\ m.entity_id = call[c].entityId
              /\ m.user_id = call[c].userId
              /\ ~ m.is_active
              /\ m.role # call[c].role

\* C14: createInvitation for the email of a user who has an active
\* membership in the entity fails at once with "User is already a member of
\* this entity" and inserts nothing, and it fails so only for such an email.
C14_AlreadyMemberRefused ==
    [][\A c \in Callers :
          (pc[c] = "idle" /\ call'[c].op = "createInvitation")
          => LET activeMember ==
                     \E u \in usersTable : \E m \in members :
                         /\ u.email = call'[c].email
                         /\ m.user_id = u.firebase_uid
                         /\ m.entity_id = call'[c].entityId
                         /\ m.is_active
                 refused ==
                     /\ pc'[c] = "done"
                     /\ call'[c].result =
                           "User is already a member of this entity"
             IN  /\ activeMember <=> refused
                 /\ invitations' = invitations]_vars

\* C15: the duplicate check of createInvitation fails with "An invitation
\* is already pending for this email", inserting nothing, exactly when the
\* entity and email have an invitation whose status is pending; with none
\* pending the call goes on to its insert, which is never refused as a
\* duplicate.
C15_DuplicateOnlyWhilePending ==
    [][\A c \in Callers :
          /\ (pc[c] = "ci_invite" /\ pc'[c] # "ci_invite")
             => LET pending ==
                        \E i \in invitations :
                            /\ i.entity_id = call[c].entityId
                            /\ i.email = call[c].email
                            /\ i.status = PENDING
                IN  /\ invitations' = invitations
                    /\ pending =>
                          (/\ pc'[c] = "done"
                           /\ call'[c].result =
                                "An invitation is already pending for this email")
                    /\ ~ pending => pc'[c] = "ci_insert"
          /\ (pc[c] = "ci_insert" /\ pc'[c] = "done")
             => call'[c].result #
                   "An invitation is already pending for this email"]_vars

\* C15, reached: a second createInvitation for the pair was refused as a
\* duplicate; the first invitation then left pending and a new invitation
\* for the same pair was created.
C15_Witness ==
    \E c, d \in Callers :
        /\ pc[c] = "done" /\ pc[d] = "done"
        /\ call[c].op = "createInvitation"
        /\ call[c].result =
              "An invitation is already pending for this email"
        /\ call[d].op = "createInvitation"
        /\ call[d].result = "ok"
        /\ call[d].entityId = call[c].entityId
        /\ call[d].email = call[c].email
        /\ \E i, j \in invitations :
              /\ i.entity_id = call[d].entityId
              /\ i.email = call[d].email
              /\ i.status = DECLINED
              /\ j.entity_id = i.entity_id
              /\ j.email = i.email
              /\ j.status = PENDING
              /\ j.token = call[d].token
              /\ i.id < j.id

\* C16: declineInvitation with a token that has no invitation fails with
\* "Invitation not found", and on an invitation that is not pending with
\* "Invitation is no longer pending", changing nothing; on a pending
\* invitation it goes on to its write, which sets the status of that
\* invitation to declined and changes no other invitation and no membership.
C16_DeclineInvitation ==
    [][\A c \in Callers :
          /\ (pc[c] = "idle" /\ call'[c].op = "declineInvitation")
             => LET found == {i \in invitations : i.token = call'[c].token}
                IN  /\ invitations' = invitations
                    /\ members' = members
                    /\ found = {} =>
                          (/\ pc'[c] = "done"
                           /\ call'[c].result = "Invitation not found")
                    /\ (\E i \in found : i.status # PENDING) =>
                          (/\ pc'[c] = "done"
                           /\ call'[c].result =
                                 "Invitation is no longer pending")
                    /\ (\E i \in found : i.status = PENDING) =>
                          pc'[c] = "dec_status"
          /\ (pc[c] = "dec_status" /\ pc'[c] # "dec_status")
             => (/\ pc'[c] = "done"
                 /\ call'[c].result = "ok"
                 /\ members' = members
                 /\ {i.id : i \in invitations'} = {i.id : i \in invitations}
                 /\ \A i \in invitations :
                       IF i.token = call[c].token
                       THEN [i EXCEPT !.status = DECLINED] \in invitations'
                       ELSE i \in invitations')]_vars

\* C16, reached: a declineInvitation has set a pending invitation to
\* declined, and a second declineInvitation of the same token was refused.
C16_Witness ==
    \E c, d \in Callers :
        /\ pc[c] = "done" /\ pc[d] = "done"
        /\ call[c].op = "declineInvitation"
        /\ call[c].result = "ok"
        /\ call[d].op = "declineInvitation"
        /\ call[d].token = call[c].token
        /\ call[d].result = "Invitation is no longer pending"
        /\ \E i \in invitations :
              i.token = call[c].token /\ i.status = DECLINED
        /\ \A m \in members : m.role = OWNER

\* C17: processNewUserInvitations ends only with success and only after it
\* has attempted every invitation it fetched; a failed attempt lets the loop
\* go on; and the insert of an attempt, reached for a pending and unexpired
\* invitation, leaves the user an active member of the entity whenever the
\* user was not an active member of it already.
C17_SignupAcceptsInvitations ==
    [][\A c \in Callers :
          (call[c].op = "processNewUserInvitations" /\ pc[c] # "done"
             /\ pc'[c] # pc[c])
          => /\ pc'[c] = "done" =>
                   (call'[c].result = "ok" /\ call'[c].todo = {})
             /\ call'[c].retList = call[c].retList
             /\ (/\ pc[c] = "acc_member"
                 /\ ~ \E m \in members :
                        /\ m.entity_id = call[c].entityId
                        /\ m.user_id = call[c].userId
                        /\ m.is_active)
                => (/\ pc'[c] = "acc_status"
                    /\ \E m \in members' :
                          /\ m.entity_id = call[c].entityId
                          /\ m.user_id = call[c].userId
                          /\ m.role = call[c].role
                          /\ m.is_active)
             /\ pc[c] = "acc_status" =>
                   \A i \in invitations' :
                       i.token = call[c].token => i.status = ACCEPTED]_vars

\* C18: the step of expireOldInvitations turns exactly the invitations that
\* are pending with expires_at before now into expired ones, leaves every
\* other invitation, every membership and every entity as it was, and returns
\* the number of invitations it changed; after it no invitation is pending
\* with expires_at before now, so a second run with no newly stale invitation
\* returns 0 and changes nothing.
C18_ExpireOldInvitationsIsExact ==
    [][\A c \in Callers :
          (pc[c] = "idle" /\ call'[c].op = "expireOldInvitations")
          => /\ \A i \in invitations :
                   IF i.status = PENDING /\ i.expires_at < now
                   THEN [i EXCEPT !.status = EXPIRED] \in invitations'
                        /\ i \notin invitations'
                   ELSE i \in invitations'
             /\ {i.id : i \in invitations'} = {i.id : i \in invitations}
             /\ Cardinality(invitations') = Cardinality(invitations)
             /\ members' = members
             /\ entities' = entities
             /\ pc'[c] = "done"
             /\ call'[c].result = "ok"
             /\ call'[c].retCount = Cardinality(invitations \ invitations')
             /\ ~ \E i \in invitations' :
                      i.status = PENDING /\ i.expires_at < now'
             /\ (~ \E i \in invitations :
                       i.status = PENDING /\ i.expires_at < now)
                => (call'[c].retCount = 0 /\ invitations' = invitations)]_vars

\* One run has expired a stale pending invitation next to an accepted one of
\* the same age, and a later run of another caller has found nothing to do.
C18_Witness ==
    \E c, d \in Callers :
        /\ c # d
        /\ pc[c] = "done" /\ call[c].op = "expireOldInvitations"
        /\ call[c].retCount = 1
        /\ pc[d] = "done" /\ call[d].op = "expireOldInvitations"
        /\ call[d].retCount = 0
        /\ \E i, j \in invitations :
              /\ i.status = EXPIRED /\ i.expires_at < now
              /\ j.status = ACCEPTED /\ j.expires_at < now

C20_GeneratedSlugNeverCollides ==
    [][\A c \in Callers :
          /\ call[c].attempts < MAX_SLUG_ATTEMPTS
          /\ (/\ pc[c] = "coe_entity"
              /\ pc'[c] # "coe_entity"
              /\ call[c].slug \in generateEntitySlug(DEFAULT_SLUG_LENGTH))
             => \/ /\ pc'[c] = "coe_member"
                   /\ validateSlug(call[c].slug)
                   /\ ~ \E e \in entities : e.entity_slug = call[c].slug
                   /\ \E e \in entities' :
                         /\ e.id = call'[c].retEntity
                         /\ e.entity_slug = call[c].slug
                \/ /\ pc'[c] = "coe_generate"
                   /\ entities' = entities]_vars

\* C21: in every reachable state no two entities share a slug, whatever the
\* interleaving of createPersonalEntity, createOrganizationEntity and
\* updateEntity (and deleteEntity).
C21_SlugsAreUnique ==
    \A e1, e2 \in entities :
        e1.entity_slug = e2.entity_slug => e1.id = e2.id

\* Two entities exist, one of them renamed by updateEntity, and a concurrent
\* updateEntity that had found the same slug available was rejected by the
\* store.
C21_Witness ==
    /\ Cardinality(entities) = 2
    /\ \E c, d \in Callers :
          /\ c # d
          /\ pc[c] = "done" /\ call[c].op = "updateEntity"
          /\ call[c].result = "ok"
          /\ \E e \in entities :
                e.id = call[c].entityId /\ e.entity_slug = call[c].slug
          /\ pc[d] = "done" /\ call[d].op = "updateEntity"
          /\ call[d].result = "unique_violation"
          /\ call[d].slug = call[c].slug
          /\ call[d].entityId # call[c].entityId

\* C22: deleteEntity of a personal entity ends with 'Personal entities
\* cannot be deleted' and deletes nothing, and no step removes a personal
\* entity; the DELETE of deleteEntity, reached for an organization, removes
\* the entity with all its memberships and invitations and nothing else.
C22_DeleteEntity ==
    [][/\ \A e \in entities :
             e.entity_type = PERSONAL =>
                \E f \in entities' :
                    f.id = e.id /\ f.entity_type = PERSONAL
       /\ \A c \in Callers :
            /\ (/\ pc[c] = "idle"
                /\ call'[c].op = "deleteEntity"
                /\ \E e \in entities :
                      /\ e.id = call'[c].entityId
                      /\ e.entity_type = PERSONAL)
               => /\ pc'[c] = "done"
                  /\ call'[c].result = "Personal entities cannot be deleted"
                  /\ entities' = entities
                  /\ members' = members
                  /\ invitations' = invitations
            /\ (pc[c] = "de_delete" /\ pc'[c] # "de_delete")
               => /\ pc'[c] = "done"
                  /\ call'[c].result = "ok"
                  /\ entities' =
                        {e \in entities : e.id # call[c].entityId}
                  /\ members' =
                        {m \in members : m.entity_id # call[c].entityId}
                  /\ invitations' =
                        {i \in invitations :
                            i.entity_id # call[c].entityId}
                  /\ \A e \in entities :
                        e.id = call[c].entityId =>
                           e.entity_type = ORGANIZATION]_vars

\* The organization was deleted while it had memberships and an invitation,
\* which are gone with it; the personal entity and its owner are still there
\* after a refused deletion.
C22_Witness ==
    \E c, d \in Callers :
        /\ pc[c] = "done" /\ call[c].op = "deleteEntity"
        /\ call[c].result = "ok" /\ call[c].entityId = 1
        /\ pc[d] = "done" /\ call[d].op = "deleteEntity"
        /\ call[d].result = "Personal entities cannot be deleted"
        /\ nextInvitationId > 1
        /\ invitations = {}
        /\ ~ \E e \in entities : e.id = 1
        /\ \E e \in entities : e.id = 2 /\ e.entity_type = PERSONAL
        /\ \A m \in members : m.entity_id = 2
        /\ \E m \in members : m.user_id = "u2" /\ m.role = OWNER

\* C23: in every state, the state between the two inserts of
\* createPersonalEntity and the state after a failure of the second included,
\* every personal entity has an active owner membership.
C23_PersonalEntityHasOwner ==
    \A e \in entities :
        e.entity_type = PERSONAL =>
            \E m \in members :
                /\ m.entity_id = e.id
                /\ m.user_id \in Users
                /\ m.role = OWNER
                /\ m.is_active

C25_NoPermissionsWithoutActiveMembership ==
    [][\A c \in Callers :
          (/\ pc[c] = "idle"
           /\ call'[c].op = "getUserPermissions"
           /\ ~ \E m \in members :
                  /\ m.entity_id = call'[c].entityId
                  /\ m.user_id = call'[c].userId
                  /\ m.is_active)
          => /\ pc'[c] = "done"
             /\ call'[c].found = NoRole
             /\ call'[c].retList = {}]_vars

\* C26: the context middleware sets a role and permissions and runs the
\* downstream handler only when the authenticated user has an active
\* membership in the resolved entity; for a user with no membership or with
\* a removed (inactive) membership only, it answers 403 and the handler is
\* not run.
C26_ContextNeedsActiveMembership ==
    [][\A c \in Callers :
          (pc[c] = "ctx_role" /\ pc'[c] # "ctx_role")
          => \A active \in
                  {{m \in members :
                       /\ m.entity_id = call[c].entityId
                       /\ m.user_id = call[c].userId
                       /\ m.is_active}} :
               /\ pc'[c] = "done"
               /\ call'[c].result = "next" =>
                     \E m \in active : call'[c].found = m.role
               /\ active = {} =>
                     /\ call'[c].result = "403 Access denied"
                     /\ call'[c].found = ""
                     /\ call'[c].retList = {}]_vars

\* C27: for a personal entity canDeleteEntity, canInviteMembers and
\* canManageMembers answer false, whoever the user is and whatever role the
\* user holds there, the owner included.
C27_PersonalEntityHasNoMemberManagement ==
    \A c \in Callers :
        (/\ pc[c] = "done"
         /\ call[c].op \in {"canDeleteEntity", "canInviteMembers",
                             "canManageMembers"}
         /\ \E e \in entities :
               e.id = call[c].entityId /\ e.entity_type = PERSONAL)
        => call[c].found = "false"

\* C28: assertPermission, called without a message of the caller's own,
\* succeeds exactly when the user has an active membership whose role grants
\* the capability; it fails with 'User is not a member of this entity' when
\* the user has no active membership, and with 'User lacks permission' when
\* the user is an active member whose role lacks the capability.
C28_AssertPermission ==
    [][\A c \in Callers :
          (/\ pc[c] = "idle"
           /\ call'[c].op = "assertPermission"
           /\ call'[c].role = "")
          => \A active \in
                  {{m \in members :
                       /\ m.entity_id = call'[c].entityId
                       /\ m.user_id = call'[c].userId
                       /\ m.is_active}} :
               /\ pc'[c] = "done"
               /\ call'[c].result = "ok" <=>
                     \E m \in active :
                         call'[c].email \in ROLE_PERMISSIONS[m.role]
               /\ active = {} =>
                     call'[c].result = "User is not a member of this entity"
               /\ (\E m \in active :
                       call'[c].email \notin ROLE_PERMISSIONS[m.role])
                  => call'[c].result = "User lacks permission"]_vars

\* C29: getMinimumRoleForPermission returns, for every capability and
\* without failing, the first of the roles member, admin, owner (least to
\* most privileged) whose permission set grants the capability, or null when
\* no role grants it.
C29_MinimumRoleForPermission ==
    \A c \in Callers :
        (pc[c] = "done" /\ call[c].op = "getMinimumRoleForPermission")
        => /\ call[c].result = "ok"
           /\ call[c].found =
                IF call[c].email \in ROLE_PERMISSIONS[MEMBER] THEN MEMBER
                ELSE IF call[c].email \in ROLE_PERMISSIONS[ADMIN] THEN ADMIN
                ELSE IF call[c].email \in ROLE_PERMISSIONS[OWNER] THEN OWNER
                ELSE NoRole

\* C30: cancelInvitation deletes the invitation row whatever its status,
\* leaves every other invitation and every membership as they were, and ends
\* without an error also when the invitation is not pending; an
\* acceptInvitation or declineInvitation that presents the token of a deleted
\* invitation ends with 'Invitation not found' and changes nothing.
C30_CancelInvitation ==
    [][\A c \in Callers :
          /\ (pc[c] = "idle" /\ call'[c].op = "cancelInvitation")
             => /\ pc'[c] = "done"
                /\ call'[c].result = "ok"
                /\ invitations' =
                      {i \in invitations : i.id # call'[c].token}
                /\ members' = members
                /\ entities' = entities
          /\ (/\ pc[c] = "idle"
              /\ call'[c].op \in {"acceptInvitation", "declineInvitation"}
              /\ ~ \E i \in invitations : i.token = call'[c].token)
             => /\ pc'[c] = "done"
                /\ call'[c].result = "Invitation not found"
                /\ invitations' = invitations
                /\ members' = members]_vars

\* A pending invitation and an accepted one were cancelled, and the accept
\* and the decline that then presented the token of the first were answered
\* 'Invitation not found'.
C30_Witness ==
    /\ invitations = {}
    /\ nextInvitationId = 3
    /\ \E m \in members : m.user_id = "u2" /\ m.is_active
    /\ \E c, d \in Callers :
          /\ c # d
          /\ pc[c] = "done" /\ call[c].op = "acceptInvitation"
          /\ call[c].result = "Invitation not found"
          /\ pc[d] = "done" /\ call[d].op = "declineInvitation"
          /\ call[d].result = "Invitation not found"
          /\ call[d].token = call[c].token

C32_GenerateUniqueSlug ==
    \A c \in Callers :
        (pc[c] = "done" /\ call[c].op = "generateUniqueSlug")
        => \A slug \in call[c].retList :
           \A base \in {slice(normalizeSlug(call[c].slug), 8)} :
             /\ call[c].result = "ok"
             /\ Len(slug) \in 8..12
             /\ \A i \in 1..Len(slug) : slug[i] \in SLUG_CHARS
             /\ IF validateSlug(base) /\ base \notin call[c].todo
                THEN slug = base
                ELSE \A free \in {{i \in 1..999 :
                                     /\ validateSlug(base \o toString(i))
                                     /\ base \o toString(i)
                                            \notin call[c].todo}} :
                       IF free # {}
                       THEN \E i \in free :
                               /\ slug = base \o toString(i)
                               /\ \A j \in free : i <= j
                       ELSE slug \in generateEntitySlug(DEFAULT_SLUG_LENGTH)

\* One call found its base and the first suffixes taken and returned the
\* base with a later suffix; another found every suffix taken and returned
\* a random slug.
C32_Witness ==
    \E c, d \in Callers :
        /\ pc[c] = "done" /\ call[c].op = "generateUniqueSlug"
        /\ slice(normalizeSlug(call[c].slug), 8) \in call[c].todo
        /\ \E i \in 2..9 :
              call[c].retList
                 = {slice(normalizeSlug(call[c].slug), 8) \o toString(i)}
        /\ pc[d] = "done" /\ call[d].op = "generateUniqueSlug"
        /\ Cardinality(call[d].todo) >= 999
        /\ Len(normalizeSlug(call[d].slug)) >= 8
        /\ call[d].retList \subseteq generateEntitySlug(DEFAULT_SLUG_LENGTH)
        /\ call[d].retList \cap call[d].todo = {}

\* C33: validateSlug(normalizeSlug(s)) is true exactly for the inputs s that
\* hold at least 8 characters that are lowercase letters or digits once
\* lowercased; for the others, the empty input among them, it is false.
C33_NormalizedSlugIsValid ==
    \A c \in Callers :
        (pc[c] = "done" /\ call[c].op = "validateSlug")
        => \A s \in {call[c].slug} :
             call[c].found
               = Bool(Cardinality({i \in 1..Len(s) :
                                      toLowerCase(s[i]) \in SLUG_CHARS}) >= 8)

\* One call normalized an input of more than 12 letters and digits, mixed
\* with other characters, and found the outcome valid; another normalized
\* the empty input and found the outcome not valid.
C33_Witness ==
    \E c, d \in Callers :
        /\ pc[c] = "done" /\ call[c].op = "validateSlug"
        /\ Cardinality({i \in 1..Len(call[c].slug) :
                           toLowerCase(call[c].slug[i]) \in SLUG_CHARS}) > 12
        /\ \E i \in 1..Len(call[c].slug) :
              toLowerCase(call[c].slug[i]) \notin SLUG_CHARS
        /\ call[c].found = "true"
        /\ pc[d] = "done" /\ call[d].op = "validateSlug"
        /\ call[d].slug = <<>>
        /\ call[d].found = "false"

\* C34: when createInvitation returns an invitation, getInvitationByToken
\* with the token returned finds, in the state the call leaves, exactly one
\* invitation: it has the email and the role requested, status pending, and
\* expires 7 days after the time of creation.
C34_CreatedInvitationIsFetched ==
    [][\A c \in Callers :
          (pc[c] = "ci_insert" /\ pc'[c] = "done" /\ call'[c].result = "ok")
          => \A token \in {call'[c].token} :
             \A fetched \in {{mapRecordToInvitation(r) :
                                r \in getInvitationByToken(token)'}} :
               /\ Cardinality(fetched) = 1
               /\ \A i \in fetched :
                     /\ i.token = token
                     /\ i.email = call[c].email
                     /\ i.role = call[c].role
                     /\ i.status = PENDING
                     /\ i.acceptedAt = Null
                     /\ i.expiresAt = now + 7]_vars

\* An invitation was created after the clock moved on; it is found by its
\* token, pending, with the email and role requested, expiring 7 days later.
C34_Witness ==
    \E c \in Callers :
        /\ pc[c] = "done" /\ call[c].op = "createInvitation"
        /\ call[c].result = "ok"
        /\ now > 0
        /\ \E i \in getInvitationByToken(call[c].token) :
              /\ i.email = call[c].email
              /\ i.role = call[c].role
              /\ i.status = PENDING
              /\ i.expires_at = now + 7

\* C35: the role gate runs the handler behind it exactly when a user role
\* was resolved and it is at least the minimum role in the order
\* member < admin < owner; it answers 403 when the role is lower, and an
\* error, the handler not run, when no role was resolved.
C35_RoleGate ==
    [][\A c \in Callers :
          (call[c].op = "entityContext" /\ call'[c].op = "requireRole")
          => \A userRole \in {call[c].found} :
             \A minimumRole \in {call'[c].role} :
             \A atLeast \in {(<<userRole, minimumRole>> \in
                                {<<MEMBER, MEMBER>>, <<ADMIN, MEMBER>>,
                                 <<ADMIN, ADMIN>>, <<OWNER, MEMBER>>,
                                 <<OWNER, ADMIN>>, <<OWNER, OWNER>>})} :
               /\ pc'[c] = "done"
               /\ userRole \in EntityRole \cup {""}
               /\ (call'[c].result = "next")
                     <=> (userRole # "" /\ atLeast)
               /\ (userRole # "" /\ ~ atLeast)
                     => call'[c].result = "403 Insufficient role"
               /\ userRole = ""
                     => call'[c].result = "500 Entity context not found"]_vars

\* The gate has stopped a member where an admin is required and let an
\* admin through where an admin is required.
C35_Witness ==
    \E c, d \in Callers :
        /\ pc[c] = "done" /\ call[c].op = "requireRole"
        /\ call[c].found = MEMBER /\ call[c].role = ADMIN
        /\ call[c].result = "403 Insufficient role"
        /\ pc[d] = "done" /\ call[d].op = "requireRole"
        /\ call[d].found = ADMIN /\ call[d].role = ADMIN
        /\ call[d].result = "next"

\* C36: of two acceptInvitation calls with one token, for the same user or
\* for two users, at most one inserts a membership and at most one succeeds.
C36_OneMembershipPerInvitation ==
    \A c, d \in Callers :
        (/\ c # d
         /\ call[c].op = "acceptInvitation"
         /\ call[d].op = "acceptInvitation"
         /\ call[c].token = call[d].token)
        => ~ /\ pc[c] = "acc_status" \/ (pc[c] = "done"
                                           /\ call[c].result = "ok")
             /\ pc[d] = "acc_status" \/ (pc[d] = "done"
                                           /\ call[d].result = "ok")

\* C37: in every state, however accept, decline and expire interleave on an
\* invitation, its accepted_at is set exactly when its status is accepted, a
\* membership of an accepting user exists when the status is accepted, and,
\* once no call is in flight, a declined or expired invitation has granted
\* no membership.  (The only memberships of u1 and u2 here are those that
\* acceptInvitation inserts.)
C37_AcceptedIffMembership ==
    \A i \in invitations :
        /\ (i.accepted_at # NoTime) <=> (i.status = ACCEPTED)
        /\ i.status = ACCEPTED
             => \E m \in members :
                   m.entity_id = i.entity_id /\ m.user_id \in Users
        /\ (/\ i.status \in {DECLINED, EXPIRED}
            /\ \A c \in Callers : pc[c] \in {"idle", "done"})
             => ~ \E m \in members :
                     m.entity_id = i.entity_id /\ m.user_id \in Users

\* C38: when acceptInvitation comes to insert the membership of a user who
\* has an active membership in the entity of the invitation, the call fails
\* on the unique constraint: no membership row changes, that of the user
\* keeping its role and staying active, and the invitation stays as it was,
\* pending and not accepted.
C38_AcceptByMemberFails ==
    [][\A c \in Callers :
          (/\ call[c].op = "acceptInvitation"
           /\ pc[c] = "acc_member"
           /\ pc'[c] # "acc_member"
           /\ \E m \in members :
                 /\ m.entity_id = call[c].entityId
                 /\ m.user_id = call[c].userId
                 /\ m.is_active)
          => /\ pc'[c] = "done"
             /\ call'[c].result = "unique_violation"
             /\ members' = members
             /\ invitations' = invitations
             /\ \A i \in invitations :
                   (i.token = call[c].token /\ i.status = PENDING)
                   => \E j \in invitations' :
                         /\ j.id = i.id
                         /\ j.status = PENDING
                         /\ j.accepted_at = NoTime]_vars

\* The owner of the organization accepted an invitation to it: the call
\* failed, the owner is still the active owner and the invitation is still
\* pending.
C38_Witness ==
    \E c \in Callers :
        /\ pc[c] = "done" /\ call[c].op = "acceptInvitation"
        /\ call[c].result = "unique_violation"
        /\ \E m \in members :
              /\ m.entity_id = call[c].entityId
              /\ m.user_id = call[c].userId
              /\ m.is_active /\ m.role = OWNER
        /\ \E i \in invitations :
              /\ i.token = call[c].token
              /\ i.status = PENDING /\ i.accepted_at = NoTime

\* C39: whatever addMember, updateMemberRole and removeMember calls are
\* made, the active owner memberships of the organization are exactly the
\* membership of its creator (u1, who created organization 1): no second
\* owner appears and the owner is not replaced.
C39_OwnerIsTheCreator ==
    \A e \in entities :
        (e.id = 1 /\ e.entity_type = ORGANIZATION)
        => {m.user_id : m \in {n \in members : /\ n.entity_id = e.id
                                               /\ n.role = OWNER
                                               /\ n.is_active}} = {"u1"}

\* C40: getOrCreatePersonalEntity for a user whose personal entity the
\* migration created returns that entity and creates none: the call ends at
\* its lookup, the entities are unchanged and the user has exactly one
\* personal entity.
C40_MigratedEntityIsReturned ==
    [][\A c \in Callers :
          (/\ pc[c] = "idle"
           /\ call'[c].op = "getOrCreatePersonalEntity"
           /\ MigratedEntitiesOf(call'[c].userId) # {})
          => /\ pc'[c] = "done"
             /\ call'[c].result = "ok"
             /\ \E e \in MigratedEntitiesOf(call'[c].userId) :
                   call'[c].retEntity = e.id
             /\ entities' = entities
             /\ Cardinality({e \in entities' :
                    /\ e.entity_type = PERSONAL
                    /\ \E m \in members' :
                          /\ m.entity_id = e.id
                          /\ m.user_id = call'[c].userId
                          /\ m.is_active}) = 1]_vars

=============================================================================
